---- MODULE Spec2Model ----
\* Verification model of the Nuke multishot toolset:
\*   nuke_tools/gsv_utils.py       wrappers around the root GSV knob
\*   nuke_tools/switch_manager.py  Switch Manager panel and its variant sections
\*   nuke_tools/screens_manager.py Screens Manager panel
\*   nuke_tools/render_hooks.py    wrapping a Write node in a VariableGroup
\*
\* Text is modelled as a sequence of one-character strings, so stripping,
\* sanitising, case folding and joining are computed character by character.
EXTENDS Integers, Sequences, FiniteSets, TLC

VARIABLES
    hostMode,        \* availability of the host API seen by gsv_utils
    gsv,             \* the root GSV knob: values, data types, list options, favourites
    lastOp,          \* the last gsv_utils call: its arguments, result and raised flag
    sections,        \* SwitchManagerPanel: the VariantSectionWidgets in layout order
    isSynced,        \* SwitchManagerPanel._is_synced
    sectionsLocked,  \* SwitchManagerPanel._sections_locked
    editEnabled,     \* enabled state of the Edit GSV button
    addEnabled,      \* enabled state of the Add Variant button
    lastSync,        \* what the last handler was, and the sections _on_sync started from
    scrRows,         \* ScreensManagerPanel: the texts of the screen rows
    scrItems,        \* ScreensManagerPanel.default_combo items
    scrCur,          \* ScreensManagerPanel.default_combo current index (0: none)
    nodes,           \* the node graph, in creation order
    selected,        \* indices of the selected nodes
    undoCount,       \* number of undo blocks opened so far
    messages,        \* number of nuke.message dialogs shown so far
    lastCall,        \* the last node-graph operation: its arguments and result
    gestures         \* number of editing gestures the artist has made in the panels

vars == <<hostMode, gsv, lastOp, sections, isSynced, sectionsLocked, editEnabled,
          addEnabled, lastSync, scrRows, scrItems, scrCur, nodes, selected,
          undoCount, messages, lastCall, gestures>>

gsvVars    == <<hostMode, gsv, lastOp>>
panelVars  == <<sections, isSynced, sectionsLocked, editEnabled, addEnabled, lastSync>>
screenVars == <<scrRows, scrItems, scrCur>>
graphVars  == <<nodes, selected, undoCount, messages, lastCall>>
userVars   == <<gestures>>

----------------------------------------------------------------------------
\* Text

\* Python's None, kept apart from every text
None == <<"<None>">>

\* the set name of the default GSV set, one token that no text can equal
DefaultSet == <<"__default__">>

Range(s) == {s[i] : i \in 1..Len(s)}

\* str.isspace for the characters used here
IsSpace(ch) == ch \in {" "}

\* str.isalnum for the characters used here
IsAlnum(ch) == ch \in {"a", "A", "b", "1", "c", "e", "n", "r", "s", "v", "w", "k", "S"}

\* the filter `ch.isalnum() or ch in "_-"`
AllowedChar(ch) == IsAlnum(ch) \/ ch \in {"_", "-"}

RECURSIVE LStrip(_)
LStrip(s) ==
    IF s = <<>> THEN s
    ELSE IF IsSpace(Head(s)) THEN LStrip(Tail(s)) ELSE s

RECURSIVE RStrip(_)
RStrip(s) ==
    IF s = <<>> THEN s
    ELSE IF IsSpace(s[Len(s)]) THEN RStrip(SubSeq(s, 1, Len(s) - 1)) ELSE s

\* str.strip(); `(text or "")` turns None into the empty text first
Strip(s) == IF s = None THEN <<>> ELSE RStrip(LStrip(s))

\* Qt's case folding for Qt.MatchFixedString comparisons
FoldChar(ch) == IF ch = "A" THEN "a" ELSE ch
Fold(s) == [i \in 1..Len(s) |-> FoldChar(s[i])]

\* code point order of the characters, for sorted()
CharOrd(ch) ==
    CASE ch = " " -> 32
      [] ch = "!" -> 33
      [] ch = "-" -> 45
      [] ch = "1" -> 49
      [] ch = "A" -> 65
      [] ch = "S" -> 83
      [] ch = "_" -> 95
      [] ch = "a" -> 97
      [] ch = "b" -> 98
      [] ch = "c" -> 99
      [] ch = "e" -> 101
      [] ch = "n" -> 110
      [] ch = "r" -> 114
      [] ch = "k" -> 107
      [] ch = "s" -> 115
      [] ch = "v" -> 118
      [] ch = "w" -> 119
      [] OTHER -> 127

RECURSIVE TextLess(_, _)
TextLess(s, t) ==
    IF t = <<>> THEN FALSE
    ELSE IF s = <<>> THEN TRUE
    ELSE IF CharOrd(Head(s)) # CharOrd(Head(t)) THEN CharOrd(Head(s)) < CharOrd(Head(t))
    ELSE TextLess(Tail(s), Tail(t))

\* sorted(names): the names of a set in ascending order
RECURSIVE Sorted(_)
Sorted(S) ==
    IF S = {} THEN <<>>
    ELSE LET m == CHOOSE x \in S : \A y \in S \ {x} : TextLess(x, y)
         IN <<m>> \o Sorted(S \ {m})

\* all sequences over S of length at most n
SeqsUpTo(S, n) == UNION {[1..k -> S] : k \in 0..n}

EmptyMap == [x \in {} |-> <<>>]

MapWithout(f, k) == [x \in DOMAIN f \ {k} |-> f[x]]

----------------------------------------------------------------------------
\* The host's Gsv_Knob, as gsv_utils uses it.  A path is <<set, variable>>,
\* the two halves of the dotted path "set.variable".

EmptyGsv ==
    [value    |-> (DefaultSet :> EmptyMap),
     type     |-> EmptyMap,
     options  |-> EmptyMap,
     favorite |-> {}]

HostExists(st, p) == p[1] \in DOMAIN st.value /\ p[2] \in DOMAIN st.value[p[1]]

\* gsv.setGsvValue(path, value): creates the variable when it is missing
HostSetGsvValue(st, p, v) ==
    LET old == IF p[1] \in DOMAIN st.value THEN st.value[p[1]] ELSE EmptyMap
    IN [st EXCEPT !.value = (p[1] :> ((p[2] :> v) @@ old)) @@ st.value,
                  !.type  = IF p \in DOMAIN st.type THEN st.type
                            ELSE (p :> "String") @@ st.type]

\* gsv.getGsvValue(path)
HostGetGsvValue(st, p) == IF HostExists(st, p) THEN st.value[p[1]][p[2]] ELSE None

\* gsv.setDataType(path, DataType.List)
HostSetDataType(st, p) ==
    IF HostExists(st, p) THEN [st EXCEPT !.type = (p :> "List") @@ st.type] ELSE st

\* gsv.setListOptions(path, options)
HostSetListOptions(st, p, opts) ==
    IF HostExists(st, p) /\ st.type[p] = "List"
    THEN [st EXCEPT !.options = (p :> opts) @@ st.options]
    ELSE st

\* gsv.getListOptions(path)
HostGetListOptions(st, p) ==
    IF HostExists(st, p) /\ p \in DOMAIN st.options THEN st.options[p] ELSE <<>>

\* gsv.setFavorite(path, flag)
HostSetFavorite(st, p, flag) ==
    IF ~HostExists(st, p) THEN st
    ELSE [st EXCEPT !.favorite = IF flag THEN @ \cup {p} ELSE @ \ {p}]

\* gsv.removeGsv(path)
HostRemoveGsv(st, p) ==
    IF ~HostExists(st, p) THEN st
    ELSE [value    |-> [st.value EXCEPT ![p[1]] = MapWithout(@, p[2])],
          type     |-> MapWithout(st.type, p),
          options  |-> MapWithout(st.options, p),
          favorite |-> st.favorite \ {p}]

\* gsv.addGsvSet(name): rejected when the set exists
HostAddGsvSet(st, name) ==
    IF name \in DOMAIN st.value THEN st
    ELSE [st EXCEPT !.value = (name :> EmptyMap) @@ st.value]

\* gsv.setValue(mapping): the mapping becomes the knob's value
HostSetValue(st, m) ==
    LET paths == {<<s, v>> : s \in DOMAIN m, v \in UNION {DOMAIN m[t] : t \in DOMAIN m}}
        live  == {p \in paths : p[2] \in DOMAIN m[p[1]]}
    IN [value    |-> m,
        type     |-> [p \in live |-> IF p \in DOMAIN st.type THEN st.type[p] ELSE "String"],
        options  |-> [p \in live \cap DOMAIN st.options |-> st.options[p]],
        favorite |-> st.favorite \cap live]

----------------------------------------------------------------------------
\* gsv_utils.  mode is what get_root_gsv_knob and the host calls do:
\*   "ok"      the knob is there and the calls succeed
\*   "nonuke"  the nuke module failed to import (nuke is None)
\*   "noknob"  nuke.root()["gsv"] raises
\*   "raises"  the knob is there and every call on it raises

HostModes == {"ok", "nonuke", "noknob", "raises"}

\* get_root_gsv_knob() is not None
KnobAvailable(mode) == mode \in {"ok", "raises"}

\* the try block of a wrapper runs to its end
CallSucceeds(mode) == KnobAvailable(mode) /\ mode # "raises"

ensure_list_datatype(st, mode, p) ==
    IF CallSucceeds(mode) THEN HostSetDataType(st, p) ELSE st

set_list_options(st, mode, p, opts) ==
    IF CallSucceeds(mode) THEN HostSetListOptions(st, p, opts) ELSE st

get_list_options(st, mode, p) ==
    IF CallSucceeds(mode) THEN HostGetListOptions(st, p) ELSE <<>>

set_value(st, mode, p, v) ==
    IF CallSucceeds(mode) THEN HostSetGsvValue(st, p, v) ELSE st

get_value(st, mode, p) ==
    IF CallSucceeds(mode) THEN HostGetGsvValue(st, p) ELSE None

set_favorite(st, mode, p, flag) ==
    IF CallSucceeds(mode) THEN HostSetFavorite(st, p, flag) ELSE st

add_set(st, mode, name) ==
    IF CallSucceeds(mode) THEN HostAddGsvSet(st, name) ELSE st

get_knob_value(st, mode) ==
    IF CallSucceeds(mode) THEN st.value ELSE EmptyMap

set_knob_value(st, mode, m) ==
    IF CallSucceeds(mode) THEN HostSetValue(st, m) ELSE st

\* _variant_path: None for a blank name, else "__default__.<stripped name>"
VariantPath(name) ==
    LET variant == Strip(name)
    IN IF variant = <<>> THEN None ELSE <<DefaultSet, variant>>

remove_variant(st, mode, name) ==
    LET path == VariantPath(name)
    IN IF path = None THEN st
       ELSE IF CallSucceeds(mode) THEN HostRemoveGsv(st, path) ELSE st

\* _normalized_options: strip, drop empties, keep the first of each text
RECURSIVE NormalizedFrom(_, _)
NormalizedFrom(options, clean) ==
    IF options = <<>> THEN clean
    ELSE LET text == Strip(Head(options))
         IN IF text = <<>> \/ text \in Range(clean)
            THEN NormalizedFrom(Tail(options), clean)
            ELSE NormalizedFrom(Tail(options), Append(clean, text))

\* _normalized_options without the `text in seen` test
NormalizedOptionsNoDedup(options) ==
    SelectSeq([i \in 1..Len(options) |-> Strip(options[i])], LAMBDA t : t # <<>>)

NormalizedOptions(options) == NormalizedFrom(options, <<>>)

\* ensure_variant_list taking default_option without the membership test
EnsureVariantListAnyDefault(st, mode, name, options, default) ==
    LET path  == VariantPath(name)
        clean == NormalizedOptions(options)
    IN IF path = None THEN [st |-> st, raised |-> FALSE]
       ELSE IF clean = <<>> THEN [st |-> st, raised |-> FALSE]
       ELSE LET dflt == IF default # None THEN default ELSE clean[1]
                s1 == set_value(st, mode, path, dflt)
                s2 == ensure_list_datatype(s1, mode, path)
                s3 == set_list_options(s2, mode, path, clean)
                s4 == set_favorite(s3, mode, path, TRUE)
            IN [st |-> s4, raised |-> FALSE]

\* ensure_variant_list without the `if not clean_options: return` guard:
\* clean_options[0] raises IndexError
EnsureVariantListNoGuard(st, mode, name, options, default) ==
    LET path  == VariantPath(name)
        clean == NormalizedOptions(options)
    IN IF path = None THEN [st |-> st, raised |-> FALSE]
       ELSE IF clean = <<>> THEN [st |-> st, raised |-> TRUE]
       ELSE LET dflt == IF default \in Range(clean) THEN default ELSE clean[1]
                s1 == set_value(st, mode, path, dflt)
                s2 == ensure_list_datatype(s1, mode, path)
                s3 == set_list_options(s2, mode, path, clean)
                s4 == set_favorite(s3, mode, path, TRUE)
            IN [st |-> s4, raised |-> FALSE]

\* ensure_variant_list; the result carries the store and whether the call raised
EnsureVariantList(st, mode, name, options, default) ==
    LET path  == VariantPath(name)
        clean == NormalizedOptions(options)
    IN IF path = None THEN [st |-> st, raised |-> FALSE]
       ELSE IF clean = <<>> THEN [st |-> st, raised |-> FALSE]
       ELSE LET dflt == IF default \in Range(clean) THEN default ELSE clean[1]
                s1 == set_value(st, mode, path, dflt)
                s2 == ensure_list_datatype(s1, mode, path)
                s3 == set_list_options(s2, mode, path, clean)
                s4 == set_favorite(s3, mode, path, TRUE)
            IN [st |-> s4, raised |-> FALSE]

ensure_variant_list(st, mode, name, options, default) ==
    EnsureVariantList(st, mode, name, options, default).st

get_variant_options(st, mode, name) ==
    LET path == VariantPath(name)
    IN IF path = None THEN <<>> ELSE get_list_options(st, mode, path)

get_variant_value(st, mode, name) ==
    LET path == VariantPath(name)
    IN IF path = None THEN None ELSE get_value(st, mode, path)

\* discover_list_variants: name -> options for the entries of __default__
\* whose list options are not empty
discover_list_variants(st, mode) ==
    LET root  == get_knob_value(st, mode)
        dset  == IF DefaultSet \in DOMAIN root THEN root[DefaultSet] ELSE EmptyMap
        names == {n \in DOMAIN dset :
                     /\ VariantPath(n) # None
                     /\ get_list_options(st, mode, VariantPath(n)) # <<>>}
    IN [n \in names |-> get_list_options(st, mode, VariantPath(n))]

\* merge_root_value.  An update entry is [isMap, map]: isMap is the
\* isinstance(vars_map, dict) test, map the entry's variables
\* merge_root_value replacing a named set instead of merging into it
MergedValueShallow(current, updates) ==
    LET taken == {s \in DOMAIN updates : updates[s].isMap}
    IN [s \in DOMAIN current \cup taken |->
          IF s \in taken THEN updates[s].map ELSE current[s]]

MergedValue(current, updates) ==
    LET taken == {s \in DOMAIN updates : updates[s].isMap}
    IN [s \in DOMAIN current \cup taken |->
          IF s \in taken
          THEN updates[s].map @@ (IF s \in DOMAIN current THEN current[s] ELSE EmptyMap)
          ELSE current[s]]

merge_root_value(st, mode, updates) ==
    set_knob_value(st, mode, MergedValue(get_knob_value(st, mode), updates))

\* ensure_option_sets: one add_set per normalized option
RECURSIVE AddSets(_, _, _)
AddSets(st, mode, names) ==
    IF names = <<>> THEN st
    ELSE AddSets(add_set(st, mode, Head(names)), mode, Tail(names))

ensure_option_sets(st, mode, options) == AddSets(st, mode, NormalizedOptions(options))

\* the variant name "screens"
ScreensName == <<"s", "c", "r", "e", "e", "n", "s">>

\* a screen list that always selects the first screen
ensure_screen_list_first(st, mode, screens, default) ==
    ensure_variant_list(st, mode, ScreensName, screens, None)

\* ensure_screen_list
ensure_screen_list(st, mode, screens, default) ==
    ensure_variant_list(st, mode, ScreensName, screens, default)

----------------------------------------------------------------------------
\* Calls of gsv_utils, one action per function

MaxOpts == 3

\* texts used as arguments
TxtA   == <<"a">>
TxtUpA == <<"A">>
TxtB   == <<"b">>
TxtV   == <<"v">>
TxtW   == <<"w">>
TxtK   == <<"k">>
TxtS   == <<"S">>

GNames    == {<<" ", "v", " ">>, <<" ">>}
GOptTexts == {<<" ", "a">>, TxtUpA}
GOptLists ==
    SeqsUpTo(GOptTexts, MaxOpts)
        \cup {<<<<" ">>>>, <<<<>>, TxtUpA>>, <<TxtA, <<" ">>, <<" ", "a">>>>, <<<<"a", " ">>, TxtA>>}
GDefaults == {None, TxtUpA}
GPath     == <<DefaultSet, TxtV>>
GSets     == {DefaultSet, TxtS}

\* a root GSV that already holds a list variant, a plain variable and a set
SeedGsv ==
    [value    |-> (DefaultSet :> (TxtV :> TxtB)),
     type     |-> (GPath :> "List"),
     options  |-> (GPath :> <<TxtB, TxtA>>),
     favorite |-> {}]

NoOp ==
    [op |-> "none", name |-> <<>>, opts |-> <<>>, dflt |-> None, upd |-> EmptyMap,
     retList |-> <<>>, retText |-> None, retMap |-> EmptyMap, raised |-> FALSE]

\* the update mappings given to merge_root_value
NotAMapping == [isMap |-> FALSE, map |-> EmptyMap]
MapEntry(k, v) == [isMap |-> TRUE, map |-> (k :> v)]
GUpdateEntries ==
    {NotAMapping, MapEntry(TxtK, TxtA), MapEntry(TxtK, TxtB), MapEntry(TxtV, TxtA)}
GUpdates ==
    UNION {[D -> GUpdateEntries] : D \in SUBSET GSets}

\* a root GSV with two sets, for merging
SeedMerge ==
    [value    |-> (DefaultSet :> ((TxtV :> TxtB) @@ (TxtW :> TxtA))) @@ (TxtS :> (TxtV :> TxtB)),
     type     |-> (GPath :> "List") @@ (<<DefaultSet, TxtW>> :> "String")
                    @@ (<<TxtS, TxtV>> :> "String"),
     options  |-> (GPath :> <<TxtB, TxtA>>),
     favorite |-> {}]

\* nothing has been called, no panel is open and the node graph is empty
IdleInit ==
    /\ lastOp = NoOp
    /\ sections = <<>> /\ isSynced = FALSE /\ sectionsLocked = FALSE
    /\ editEnabled = TRUE /\ addEnabled = TRUE
    /\ lastSync = [op |-> "none", pre |-> <<>>, before |-> {}]
    /\ scrRows = <<>> /\ scrItems = <<>> /\ scrCur = 0
    /\ nodes = <<>> /\ selected = {} /\ undoCount = 0 /\ messages = 0
    /\ lastCall = [op |-> "none"]
    /\ gestures = 0

GInit ==
    /\ hostMode \in HostModes
    /\ gsv \in {EmptyGsv, SeedGsv}
    /\ IdleInit

GFrame == UNCHANGED <<hostMode, panelVars, screenVars, graphVars, userVars>>

GEnsureVariantList ==
    \E name \in GNames, opts \in GOptLists, dflt \in GDefaults :
        LET r == EnsureVariantList(gsv, hostMode, name, opts, dflt)
        IN /\ gsv' = r.st
           /\ lastOp' = [NoOp EXCEPT !.op = "ensure_variant_list", !.name = name,
                                     !.opts = opts, !.dflt = dflt, !.raised = r.raised]
           /\ GFrame

GSetValue ==
    \E v \in {TxtB} :
        /\ gsv' = set_value(gsv, hostMode, GPath, v)
        /\ lastOp' = [NoOp EXCEPT !.op = "set_value"]
        /\ GFrame

GSetListOptions ==
    \E opts \in {<<TxtA>>, <<TxtB, TxtA>>} :
        /\ gsv' = set_list_options(gsv, hostMode, GPath, opts)
        /\ lastOp' = [NoOp EXCEPT !.op = "set_list_options", !.opts = opts]
        /\ GFrame

GEnsureListDatatype ==
    /\ gsv' = ensure_list_datatype(gsv, hostMode, GPath)
    /\ lastOp' = [NoOp EXCEPT !.op = "ensure_list_datatype"]
    /\ GFrame

GSetFavorite ==
    \E flag \in BOOLEAN :
        /\ gsv' = set_favorite(gsv, hostMode, GPath, flag)
        /\ lastOp' = [NoOp EXCEPT !.op = "set_favorite"]
        /\ GFrame

GAddSet ==
    \E name \in {TxtS} :
        /\ gsv' = add_set(gsv, hostMode, name)
        /\ lastOp' = [NoOp EXCEPT !.op = "add_set", !.name = name]
        /\ GFrame

GSetKnobValue ==
    \E m \in {DefaultSet :> EmptyMap, DefaultSet :> (TxtV :> TxtA)} :
        /\ gsv' = set_knob_value(gsv, hostMode, m)
        /\ lastOp' = [NoOp EXCEPT !.op = "set_knob_value"]
        /\ GFrame

GRemoveVariant ==
    \E name \in GNames :
        /\ gsv' = remove_variant(gsv, hostMode, name)
        /\ lastOp' = [NoOp EXCEPT !.op = "remove_variant", !.name = name]
        /\ GFrame

GGetListOptions ==
    /\ lastOp' = [NoOp EXCEPT !.op = "get_list_options",
                              !.retList = get_list_options(gsv, hostMode, GPath)]
    /\ UNCHANGED gsv
    /\ GFrame

GGetValue ==
    /\ lastOp' = [NoOp EXCEPT !.op = "get_value",
                              !.retText = get_value(gsv, hostMode, GPath)]
    /\ UNCHANGED gsv
    /\ GFrame

GGetKnobValue ==
    /\ lastOp' = [NoOp EXCEPT !.op = "get_knob_value",
                              !.retMap = get_knob_value(gsv, hostMode)]
    /\ UNCHANGED gsv
    /\ GFrame

GGetVariantOptions ==
    \E name \in GNames :
        /\ lastOp' = [NoOp EXCEPT !.op = "get_variant_options", !.name = name,
                                  !.retList = get_variant_options(gsv, hostMode, name)]
        /\ UNCHANGED gsv
        /\ GFrame

GGetVariantValue ==
    \E name \in GNames :
        /\ lastOp' = [NoOp EXCEPT !.op = "get_variant_value", !.name = name,
                                  !.retText = get_variant_value(gsv, hostMode, name)]
        /\ UNCHANGED gsv
        /\ GFrame

GMergeRootValue ==
    \E upd \in GUpdates :
        /\ gsv' = merge_root_value(gsv, hostMode, upd)
        /\ lastOp' = [NoOp EXCEPT !.op = "merge_root_value", !.upd = upd]
        /\ GFrame

GNext ==
    \/ GEnsureVariantList
    \/ GSetValue
    \/ GSetListOptions
    \/ GEnsureListDatatype
    \/ GSetFavorite
    \/ GAddSet
    \/ GSetKnobValue
    \/ GRemoveVariant
    \/ GGetListOptions
    \/ GGetValue
    \/ GGetKnobValue
    \/ GGetVariantOptions
    \/ GGetVariantValue

SpecGsv == GInit /\ [][GNext]_vars

\* merge_root_value on its own, next to the whole-mapping read and write
MInit ==
    /\ hostMode \in HostModes
    /\ gsv \in {EmptyGsv, SeedMerge}
    /\ IdleInit

MNext ==
    \/ GMergeRootValue
    \/ GSetKnobValue
    \/ GGetKnobValue
    \/ GAddSet

SpecMerge == MInit /\ [][MNext]_vars

----------------------------------------------------------------------------
\* VariantSectionWidget.  A section is
\*   [name, rows, items, cur, locked]: the text of variant_edit, the texts of
\*   the row editors, the items of current_combo, its current index (0 when
\*   the combo is empty) and _locked.

MinRows == 2

\* _sanitize_name / _sanitize_option: strip, then keep letters, digits, _ and -
SanitizeName(text) == SelectSeq(Strip(text), AllowedChar)
SanitizeOption(text) == SelectSeq(Strip(text), AllowedChar)

\* _sanitize_entry: the filter applied to a row while typing (no strip)
SanitizeEntry(raw) == SelectSeq(raw, AllowedChar)

\* a collection that keeps repeated names
RECURSIVE CollectFromKeepingRepeats(_, _)
CollectFromKeepingRepeats(rows, options) ==
    IF rows = <<>> THEN options
    ELSE LET name == SanitizeOption(Head(rows))
         IN IF name # <<>>
            THEN CollectFromKeepingRepeats(Tail(rows), Append(options, name))
            ELSE CollectFromKeepingRepeats(Tail(rows), options)

\* collect_options: sanitized row texts, empties and repeats dropped
RECURSIVE CollectFrom(_, _)
CollectFrom(rows, options) ==
    IF rows = <<>> THEN options
    ELSE LET name == SanitizeOption(Head(rows))
         IN IF name # <<>> /\ name \notin Range(options)
            THEN CollectFrom(Tail(rows), Append(options, name))
            ELSE CollectFrom(Tail(rows), options)

CollectOptions(sec) == CollectFrom(sec.rows, <<>>)

\* variant_name()
VariantName(sec) == SanitizeName(sec.name)

\* current_combo.currentText()
CurrentText(sec) == IF sec.cur = 0 THEN <<>> ELSE sec.items[sec.cur]

\* current_selection(): the combo text, else the first option, else None
CurrentSelection(sec) ==
    LET text == Strip(CurrentText(sec))
        options == CollectOptions(sec)
    IN IF text # <<>> THEN text
       ELSE IF options # <<>> THEN options[1] ELSE None

\* QComboBox.findText(text, Qt.MatchFixedString): the first item equal to
\* text up to letter case; 0 when there is none
FindText(items, text) ==
    IF \E i \in 1..Len(items) : Fold(items[i]) = Fold(text)
    THEN CHOOSE i \in 1..Len(items) :
            /\ Fold(items[i]) = Fold(text)
            /\ \A j \in 1..(i - 1) : Fold(items[j]) # Fold(text)
    ELSE 0

\* findText with an exact, case-sensitive match
FindTextExact(items, text) ==
    IF \E i \in 1..Len(items) : items[i] = text
    THEN CHOOSE i \in 1..Len(items) :
            /\ items[i] = text
            /\ \A j \in 1..(i - 1) : items[j] # text
    ELSE 0

\* _set_combo_items: refill the combo (the first item added becomes current),
\* then select the target by findText, or by setCurrentText when not found
SetComboItems(sec, options, current_value) ==
    LET target == IF current_value \in Range(options) THEN current_value
                  ELSE IF options # <<>> THEN options[1] ELSE <<>>
        first  == IF options = <<>> THEN 0 ELSE 1
        idx    == FindText(options, target)
        exact  == FindTextExact(options, target)
    IN [sec EXCEPT !.items = options,
                   !.cur = IF target = <<>> THEN first
                           ELSE IF idx > 0 THEN idx
                           ELSE IF exact > 0 THEN exact ELSE first]

\* _refresh_from_rows, without the change callback
RefreshFromRows(sec) == SetComboItems(sec, CollectOptions(sec), CurrentSelection(sec))

\* set_options: one sanitized row per option, or the minimum blank rows
SetOptions(sec, options, current_value) ==
    LET rows == IF options # <<>>
                THEN [i \in 1..Len(options) |-> SanitizeOption(options[i])]
                ELSE [i \in 1..MinRows |-> <<>>]
        s1 == RefreshFromRows([sec EXCEPT !.rows = rows])
    IN SetComboItems(s1, CollectOptions(s1), current_value)

\* VariantSectionWidget.__init__
NewSection(name, options, current_value, locked) ==
    LET blank == [name |-> SanitizeName(name), rows |-> [i \in 1..MinRows |-> <<>>],
                  items |-> <<>>, cur |-> 0, locked |-> FALSE]
    IN [SetOptions(blank, options, current_value) EXCEPT !.locked = locked]

\* is_syncable
IsSyncable(sec) == VariantName(sec) # <<>> /\ CollectOptions(sec) # <<>>

\* apply_to_gsv that passes no current selection to ensure_variant_list
ApplyToGsvNoSelection(st, mode, sec) ==
    LET variant == VariantName(sec)
        options == CollectOptions(sec)
    IN IF variant = <<>> \/ options = <<>> THEN st
       ELSE ensure_option_sets(
                ensure_variant_list(st, mode, variant, options, None),
                mode, options)

\* apply_to_gsv
apply_to_gsv(st, mode, sec) ==
    LET variant == VariantName(sec)
        options == CollectOptions(sec)
    IN IF variant = <<>> \/ options = <<>> THEN st
       ELSE ensure_option_sets(
                ensure_variant_list(st, mode, variant, options, CurrentSelection(sec)),
                mode, options)

----------------------------------------------------------------------------
\* SwitchManagerPanel

\* _gsv_state_matches_ui
GsvStateMatchesUi(st, mode, secs) ==
    LET gsv_variants == discover_list_variants(st, mode)
        idxs  == 1..Len(secs)
        named == {i \in idxs : VariantName(secs[i]) # <<>>}
        TextOr(t) == IF t = None THEN <<>> ELSE t
    IN /\ \A i \in idxs : ~(VariantName(secs[i]) = <<>> /\ CollectOptions(secs[i]) # <<>>)
       /\ \A i, j \in named : i # j => VariantName(secs[i]) # VariantName(secs[j])
       /\ {VariantName(secs[i]) : i \in named} = DOMAIN gsv_variants
       /\ \A i \in named :
             LET name == VariantName(secs[i])
             IN /\ CollectOptions(secs[i]) = gsv_variants[name]
                /\ Strip(TextOr(CurrentSelection(secs[i])))
                      = Strip(TextOr(get_variant_value(st, mode, name)))

\* the sections _load_from_gsv builds: one unlocked blank section when no
\* list variant is found, else one locked section per variant in sorted order
LoadedSections(st, mode) ==
    LET variants == discover_list_variants(st, mode)
        order    == Sorted(DOMAIN variants)
    IN IF DOMAIN variants = {}
       THEN <<NewSection(<<>>, <<>>, None, FALSE)>>
       ELSE [i \in 1..Len(order) |->
                NewSection(order[i], variants[order[i]],
                           get_variant_value(st, mode, order[i]), TRUE)]

\* a locking that forgets the Add Variant button
SetSectionsLockedEditOnly(secs, flag) ==
    /\ sections' = [i \in 1..Len(secs) |-> [secs[i] EXCEPT !.locked = flag]]
    /\ sectionsLocked' = flag
    /\ editEnabled' = flag
    /\ addEnabled' = addEnabled

\* _set_sections_locked
SetSectionsLocked(secs, flag) ==
    /\ sections' = [i \in 1..Len(secs) |-> [secs[i] EXCEPT !.locked = flag]]
    /\ sectionsLocked' = flag
    /\ editEnabled' = flag
    /\ addEnabled' = ~flag

\* _load_from_gsv: rebuild the sections; _mark_unsynced when nothing was
\* found, _mark_synced (which locks) otherwise
LoadFromGsv(st, mode) ==
    LET found == DOMAIN discover_list_variants(st, mode) # {}
    IN /\ SetSectionsLocked(LoadedSections(st, mode), found)
       /\ isSynced' = found

NotASync == [op |-> "other", pre |-> <<>>, before |-> {}]

\* how many editing gestures the artist makes in one session of the panel
MaxGestures == 4

\* one more editing gesture
Gesture == gestures < MaxGestures /\ gestures' = gestures + 1

\* what the artist types, and what other tools put into the root GSV
PNameInputs == {<<" ", "v", "!">>}
PRowInputs  == {<<"a", "!">>, <<"A">>}
PExtNames   == {TxtW}
PExtOptions == {<<TxtA, TxtUpA>>}

\* a script that already has the list variant w
SeedPanel == ensure_variant_list(EmptyGsv, "ok", TxtW, <<TxtA, TxtUpA>>, TxtA)

\* SwitchManagerPanel.__init__: _load_from_gsv, then _update_sync_status(force=True)
PInit ==
    /\ hostMode = "ok"
    /\ gsv \in {EmptyGsv, SeedPanel}
    /\ lastOp = NoOp
    /\ sections = LoadedSections(gsv, hostMode)
    /\ sectionsLocked = (DOMAIN discover_list_variants(gsv, hostMode) # {})
    /\ editEnabled = sectionsLocked
    /\ addEnabled = ~sectionsLocked
    /\ isSynced = GsvStateMatchesUi(gsv, hostMode, sections)
    /\ lastSync = NotASync
    /\ scrRows = <<>> /\ scrItems = <<>> /\ scrCur = 0
    /\ nodes = <<>> /\ selected = {} /\ undoCount = 0 /\ messages = 0
    /\ lastCall = [op |-> "none"]
    /\ gestures = 0

PFrame == UNCHANGED <<hostMode, lastOp, screenVars, graphVars>>

PIdle == PFrame /\ UNCHANGED userVars

\* the Add Variant button: _add_variant_section(); building the section runs
\* its change callback, _mark_unsynced
PAddVariant ==
    /\ addEnabled
    /\ Gesture
    /\ sections' = Append(sections, NewSection(<<>>, <<>>, None, sectionsLocked))
    /\ isSynced' = FALSE
    /\ lastSync' = NotASync
    /\ UNCHANGED <<gsv, sectionsLocked, editEnabled, addEnabled>>
    /\ PFrame

\* the section's remove button: _remove_section
PRemoveSection ==
    \E i \in 1..Len(sections) :
        /\ IF Len(sections) <= 1
           THEN LET cleared == SetOptions([sections[i] EXCEPT !.name = SanitizeName(<<>>)],
                                          <<>>, None)
                IN SetSectionsLocked(<<cleared>>, FALSE)
           ELSE /\ sections' = [k \in 1..(Len(sections) - 1) |->
                                   IF k < i THEN sections[k] ELSE sections[k + 1]]
                /\ UNCHANGED <<sectionsLocked, editEnabled, addEnabled>>
        /\ isSynced' = FALSE
        /\ lastSync' = NotASync
        /\ Gesture
        /\ UNCHANGED gsv
        /\ PFrame

\* typing in variant_edit: _on_variant_name_edited
PEditName ==
    \E i \in 1..Len(sections), raw \in PNameInputs :
        /\ ~sections[i].locked
        /\ sections' = [sections EXCEPT ![i].name = SanitizeName(raw)]
        /\ isSynced' = FALSE
        /\ lastSync' = NotASync
        /\ Gesture
        /\ UNCHANGED <<gsv, sectionsLocked, editEnabled, addEnabled>>
        /\ PFrame

\* typing in a row editor: _sanitize_entry, then _refresh_from_rows
PEditRow ==
    \E i \in 1..Len(sections), raw \in PRowInputs :
        \E r \in 1..Len(sections[i].rows) :
            /\ ~sections[i].locked
            /\ sections' = [sections EXCEPT
                              ![i] = RefreshFromRows([@ EXCEPT !.rows[r] = SanitizeEntry(raw)])]
            /\ isSynced' = FALSE
            /\ lastSync' = NotASync
            /\ Gesture
            /\ UNCHANGED <<gsv, sectionsLocked, editEnabled, addEnabled>>
            /\ PFrame

\* a row's + button: _add_row(insert_after=row)
PAddRow ==
    \E i \in 1..Len(sections) :
        \E r \in 1..Len(sections[i].rows) :
            /\ ~sections[i].locked
            /\ Gesture
            /\ LET old  == sections[i].rows
                   rows == SubSeq(old, 1, r) \o <<<<>>>> \o SubSeq(old, r + 1, Len(old))
               IN sections' = [sections EXCEPT ![i] = RefreshFromRows([@ EXCEPT !.rows = rows])]
            /\ isSynced' = FALSE
            /\ lastSync' = NotASync
            /\ UNCHANGED <<gsv, sectionsLocked, editEnabled, addEnabled>>
            /\ PFrame

\* a row's - button: _remove_row clears the last remaining row
PRemoveRow ==
    \E i \in 1..Len(sections) :
        \E r \in 1..Len(sections[i].rows) :
            /\ ~sections[i].locked
            /\ LET old  == sections[i].rows
                   rows == IF Len(old) <= 1 THEN <<<<>>>>
                           ELSE SubSeq(old, 1, r - 1) \o SubSeq(old, r + 1, Len(old))
               IN sections' = [sections EXCEPT ![i] = RefreshFromRows([@ EXCEPT !.rows = rows])]
            /\ isSynced' = FALSE
            /\ lastSync' = NotASync
            /\ Gesture
            /\ UNCHANGED <<gsv, sectionsLocked, editEnabled, addEnabled>>
            /\ PFrame

\* picking another item in current_combo: _on_default_changed
PPickCurrent ==
    \E i \in 1..Len(sections) :
        \E k \in 1..Len(sections[i].items) :
            /\ ~sections[i].locked
            /\ k # sections[i].cur
            /\ sections' = [sections EXCEPT ![i].cur = k]
            /\ isSynced' = FALSE
            /\ lastSync' = NotASync
            /\ Gesture
            /\ UNCHANGED <<gsv, sectionsLocked, editEnabled, addEnabled>>
            /\ PFrame

\* the loop of _on_sync over the sections
RECURSIVE ApplySections(_, _, _)
ApplySections(st, mode, secs) ==
    IF secs = <<>> THEN st
    ELSE ApplySections(IF IsSyncable(Head(secs)) THEN apply_to_gsv(st, mode, Head(secs)) ELSE st,
                       mode, Tail(secs))

\* the loop of _on_sync over removed_variants
RECURSIVE RemoveVariants(_, _, _)
RemoveVariants(st, mode, names) ==
    IF names = {} THEN st
    ELSE LET n == CHOOSE x \in names : TRUE
         IN RemoveVariants(remove_variant(st, mode, n), mode, names \ {n})

\* the variant names _on_sync collects in synced_variants
SyncedVariants(secs) ==
    {VariantName(secs[i]) : i \in {k \in 1..Len(secs) : IsSyncable(secs[k])}}

\* _on_sync that removes nothing
RemovedVariantsNone(existing, synced) == {}

\* the variants _on_sync removes: existing_variants - synced_variants
RemovedVariants(existing, synced) == existing \ synced

\* _on_sync
POnSync ==
    LET existing == DOMAIN discover_list_variants(gsv, hostMode)
        synced   == SyncedVariants(sections)
        removed  == RemovedVariants(existing, synced)
        written  == ApplySections(gsv, hostMode, sections)
        after    == RemoveVariants(written, hostMode, removed)
        wroteAny == synced # {} \/ removed # {}
    IN /\ gsv' = after
       /\ IF wroteAny THEN LoadFromGsv(after, hostMode)
          ELSE UNCHANGED <<sections, isSynced, sectionsLocked, editEnabled, addEnabled>>
       /\ lastSync' = [op |-> "sync", pre |-> sections, before |-> existing]
       /\ PIdle

\* _update_sync_status: the status follows _gsv_state_matches_ui
UpdateSyncStatus(secs) == isSynced' = GsvStateMatchesUi(gsv, hostMode, secs)

\* _on_edit
POnEdit ==
    /\ editEnabled
    /\ SetSectionsLocked(sections, FALSE)
    /\ UpdateSyncStatus(sections)
    /\ lastSync' = [NotASync EXCEPT !.op = "edit"]
    /\ UNCHANGED gsv
    /\ PIdle

\* the status timer, or focus entering the panel
PUpdateSyncStatus ==
    /\ UpdateSyncStatus(sections)
    /\ lastSync' = NotASync
    /\ UNCHANGED <<gsv, sections, sectionsLocked, editEnabled, addEnabled>>
    /\ PIdle

\* the onGsvSetChanged handler installed by _install_gsv_callback, run after
\* another tool selected a different option of a list variant
PExternalSelect ==
    \E name \in DOMAIN discover_list_variants(gsv, hostMode) :
        \E k \in 1..Len(discover_list_variants(gsv, hostMode)[name]) :
            LET value   == discover_list_variants(gsv, hostMode)[name][k]
                changed == HostSetGsvValue(gsv, <<DefaultSet, name>>, value)
            IN /\ changed # gsv
               /\ gsv' = changed
               /\ LoadFromGsv(changed, hostMode)
               /\ lastSync' = [NotASync EXCEPT !.op = "load"]
               /\ PIdle

\* the handler run after another tool created or redefined a list variant
PExternalCreate ==
    \E name \in PExtNames, opts \in PExtOptions :
        LET changed == ensure_variant_list(gsv, hostMode, name, opts, opts[1])
        IN /\ changed # gsv
           /\ gsv' = changed
           /\ LoadFromGsv(changed, hostMode)
           /\ lastSync' = [NotASync EXCEPT !.op = "load"]
           /\ PIdle

\* the handler run after another tool removed a list variant
PExternalRemove ==
    \E name \in DOMAIN discover_list_variants(gsv, hostMode) :
        LET changed == HostRemoveGsv(gsv, <<DefaultSet, name>>)
        IN /\ gsv' = changed
           /\ LoadFromGsv(changed, hostMode)
           /\ lastSync' = [NotASync EXCEPT !.op = "load"]
           /\ PIdle

PNext ==
    \/ PAddVariant
    \/ PRemoveSection
    \/ PEditName
    \/ PEditRow
    \/ PAddRow
    \/ PRemoveRow
    \/ PPickCurrent
    \/ POnSync
    \/ POnEdit
    \/ PUpdateSyncStatus
    \/ PExternalSelect
    \/ PExternalCreate
    \/ PExternalRemove

Spec == PInit /\ [][PNext]_vars

----------------------------------------------------------------------------
\* The node graph.  A node is a record; nodes is the list of the nodes of the
\* root graph in creation order, and a node is referred to by its index.

NoCall == [op |-> "none"]

\* a fresh node of the given class: no label, no knobs set, nothing
\* connected, and none of the knobs render_hooks adds to a wrapper
MkNode(class, name) ==
    [class |-> class, name |-> name, label |-> <<>>, publish |-> FALSE,
     local |-> EmptyMap, variable |-> <<>>, inputs |-> EmptyMap,
     patterns |-> <<>>, inner |-> <<>>,
     knobs |-> {}, tabs |-> <<>>, hasLabel |-> FALSE, toggles |-> <<>>,
     refresh |-> FALSE, links |-> <<>>,
     selector |-> [present |-> FALSE, values |-> <<>>, value |-> <<>>,
                   visible |-> FALSE]]

NodeNames(ns) == {ns[i].name : i \in 1..Len(ns)}

\* the decimal digit the host appends to make a node name unique
Digit(k) == <<"1", "2", "3", "4", "5", "6", "7", "8", "9">>[k]

\* the name a node gets: the requested one, or the requested one with the
\* smallest number that makes it unique in the graph
UniqueName(ns, base) ==
    IF base \notin NodeNames(ns) THEN base
    ELSE LET free == {k \in 1..9 : Append(base, Digit(k)) \notin NodeNames(ns)}
         IN Append(base, Digit(CHOOSE k \in free : \A j \in free : k <= j))

\* node creation works when the nuke module is importable and does not raise
NodesAvailable(mode) == mode \in {"ok", "noknob"}

\* create_variable_group: the graph with the new VariableGroup appended and
\* its index, or the graph as it was and 0 for None
create_variable_group(ns, mode, name) ==
    IF NodesAvailable(mode)
    THEN [nodes |-> Append(ns, MkNode("VariableGroup", UniqueName(ns, name))),
          node  |-> Len(ns) + 1]
    ELSE [nodes |-> ns, node |-> 0]

----------------------------------------------------------------------------
\* ScreensManagerPanel

\* "__default__.screens"
ScreensPath == <<DefaultSet, ScreensName>>

MinScreenRows == 2

\* _sanitize_screen_name
SanitizeScreenName(text) == SelectSeq(text, AllowedChar)

\* _collect_screens_from_rows
RECURSIVE CollectScreensFrom(_, _)
CollectScreensFrom(rows, screens) ==
    IF rows = <<>> THEN screens
    ELSE LET name == SanitizeScreenName(Strip(Head(rows)))
         IN IF name # <<>> /\ name \notin Range(screens)
            THEN CollectScreensFrom(Tail(rows), Append(screens, name))
            ELSE CollectScreensFrom(Tail(rows), screens)

CollectScreens(rows) == CollectScreensFrom(rows, <<>>)

\* default_combo.currentText()
ScreenCurrentText(items, cur) == IF cur = 0 THEN <<>> ELSE items[cur]

\* set_default_screen(name, allow_add=False): the new current index
SetDefaultScreen(items, cur, name) ==
    LET idx   == IF name # <<>> THEN FindText(items, name) ELSE 0
        exact == FindTextExact(items, name)
    IN IF idx > 0 THEN idx
       ELSE IF name # <<>> /\ exact > 0 THEN exact ELSE cur

\* _on_rows_changed: refill the combo from the rows, keep the previous text
\* when it is still a screen, else take the first screen
OnRowsChanged(rows, items, cur) ==
    LET screens  == CollectScreens(rows)
        previous == ScreenCurrentText(items, cur)
        first    == IF screens = <<>> THEN 0 ELSE 1
    IN [rows  |-> rows,
        items |-> screens,
        cur   |-> IF previous # <<>> /\ previous \in Range(screens)
                  THEN SetDefaultScreen(screens, first, previous)
                  ELSE IF screens # <<>>
                       THEN SetDefaultScreen(screens, first, screens[1])
                       ELSE first]

\* _set_screen_rows: one row per name, or the blank rows
SetScreenRows(names, items, cur) ==
    LET rows == IF names # <<>>
                THEN [i \in 1..Len(names) |-> SanitizeScreenName(names[i])]
                ELSE [i \in 1..MinScreenRows |-> <<>>]
    IN OnRowsChanged(rows, items, cur)

\* _load_from_gsv of the Screens Manager
ScreensLoaded(st, mode, items, cur) ==
    LET options == get_list_options(st, mode, ScreensPath)
        ui      == SetScreenRows(options, items, cur)
        current == get_value(st, mode, ScreensPath)
    IN IF current # None /\ current # <<>>
       THEN [ui EXCEPT !.cur = SetDefaultScreen(ui.items, ui.cur, current)]
       ELSE IF options # <<>>
            THEN [ui EXCEPT !.cur = SetDefaultScreen(ui.items, ui.cur, options[1])]
            ELSE ui

\* "screen_<name>"
ScreenGroupName(name) == <<"s", "c", "r", "e", "e", "n", "_">> \o name

\* _create_or_lock_group_for_screen
CreateOrLockGroupForScreen(ns, mode, name) ==
    LET made == create_variable_group(ns, mode, ScreenGroupName(name))
    IN IF made.node = 0 THEN ns
       ELSE [made.nodes EXCEPT ![made.node].local = (ScreensPath :> name) @@ @]

\* the loop over the screens in _on_groups and _on_apply
RECURSIVE GroupsForScreens(_, _, _)
GroupsForScreens(ns, mode, screens) ==
    IF screens = <<>> THEN ns
    ELSE GroupsForScreens(CreateOrLockGroupForScreen(ns, mode, Head(screens)),
                          mode, Tail(screens))

\* how many nodes the graph may hold
MaxNodes == 4

\* how many dialogs and undo blocks a session may see
MaxCalls == 3
MoreCalls == undoCount + messages < MaxCalls

\* what the artist types into a screen row, and a script that has screens
SRowInputs == {<<"A", "!">>, <<"b">>}
SeedScreens == ensure_screen_list(EmptyGsv, "ok", <<<<"A">>, <<"b">>>>, <<"b">>)

\* ScreensManagerPanel.__init__: _build_ui, then _load_from_gsv
SInit ==
    /\ hostMode = "ok"
    /\ gsv \in {EmptyGsv, SeedScreens}
    /\ lastOp = NoOp
    /\ sections = <<>> /\ isSynced = FALSE /\ sectionsLocked = FALSE
    /\ editEnabled = TRUE /\ addEnabled = TRUE
    /\ lastSync = NotASync
    /\ nodes = <<>> /\ selected = {} /\ undoCount = 0 /\ messages = 0
    /\ lastCall = [op |-> "none"]
    /\ gestures = 0
    /\ LET ui == ScreensLoaded(gsv, hostMode, <<>>, 0)
       IN scrRows = ui.rows /\ scrItems = ui.items /\ scrCur = ui.cur

SFrame == UNCHANGED <<hostMode, lastOp, panelVars>>

SetUi(ui) == scrRows' = ui.rows /\ scrItems' = ui.items /\ scrCur' = ui.cur

\* typing in a screen row: _sanitize_and_emit
SEditRow ==
    \E r \in 1..Len(scrRows), raw \in SRowInputs :
        /\ Gesture
        /\ SetUi(OnRowsChanged([scrRows EXCEPT ![r] = SelectSeq(raw, AllowedChar)],
                               scrItems, scrCur))
        /\ lastCall' = NoCall
        /\ UNCHANGED <<gsv, nodes, selected, undoCount, messages>>
        /\ SFrame

\* a row's + button: _add_screen_row(insert_after=row)
SAddRow ==
    \E r \in 1..Len(scrRows) :
        /\ Gesture
        /\ SetUi(OnRowsChanged(SubSeq(scrRows, 1, r) \o <<<<>>>>
                                   \o SubSeq(scrRows, r + 1, Len(scrRows)),
                               scrItems, scrCur))
        /\ lastCall' = NoCall
        /\ UNCHANGED <<gsv, nodes, selected, undoCount, messages>>
        /\ SFrame

\* a row's - button: _remove_screen_row
SRemoveRow ==
    \E r \in 1..Len(scrRows) :
        /\ Gesture
        /\ SetUi(OnRowsChanged(IF Len(scrRows) <= 1 THEN <<<<>>>>
                               ELSE SubSeq(scrRows, 1, r - 1)
                                        \o SubSeq(scrRows, r + 1, Len(scrRows)),
                               scrItems, scrCur))
        /\ lastCall' = NoCall
        /\ UNCHANGED <<gsv, nodes, selected, undoCount, messages>>
        /\ SFrame

\* picking another item of default_combo: _on_default_changed
SPickDefault ==
    \E k \in 1..Len(scrItems) :
        /\ k # scrCur
        /\ Gesture
        /\ scrCur' = k
        /\ gsv' = IF scrItems[k] = <<>> THEN gsv
                  ELSE set_value(gsv, hostMode, ScreensPath, scrItems[k])
        /\ lastCall' = NoCall
        /\ UNCHANGED <<scrRows, scrItems, nodes, selected, undoCount, messages>>
        /\ SFrame

\* the Sync Screens to GSV button: _on_apply
SOnApply ==
    LET screens == CollectScreens(scrRows)
        text    == ScreenCurrentText(scrItems, scrCur)
        default == IF text # <<>> THEN text ELSE screens[1]
        written == ensure_option_sets(
                       ensure_screen_list(gsv, hostMode, screens, default),
                       hostMode, screens)
    IN /\ Len(nodes) + Len(screens) <= MaxNodes
       /\ IF screens = <<>>
          THEN UNCHANGED <<gsv, nodes, screenVars>>
          ELSE /\ gsv' = written
               /\ nodes' = GroupsForScreens(nodes, hostMode, screens)
               /\ SetUi(ScreensLoaded(written, hostMode, scrItems, scrCur))
       /\ lastCall' = [op |-> "apply", screens |-> screens, pre |-> nodes,
                       preGsv |-> gsv, text |-> text]
       /\ UNCHANGED <<selected, undoCount, messages, userVars>>
       /\ SFrame

\* the Build VariableGroups button: _on_groups
SOnGroups ==
    LET screens == CollectScreens(scrRows)
    IN /\ Len(nodes) + Len(screens) <= MaxNodes
       /\ nodes' = GroupsForScreens(nodes, hostMode, screens)
       /\ lastCall' = [op |-> "groups", screens |-> screens, pre |-> nodes]
       /\ UNCHANGED <<gsv, screenVars, selected, undoCount, messages, userVars>>
       /\ SFrame

SNext ==
    \/ SEditRow
    \/ SAddRow
    \/ SRemoveRow
    \/ SPickDefault
    \/ SOnApply
    \/ SOnGroups

SpecScreens == SInit /\ [][SNext]_vars

----------------------------------------------------------------------------
\* VariantSectionWidget.create_variable_switch

NewLine == "\n"

\* "\n".join(options)
RECURSIVE JoinLines(_)
JoinLines(options) ==
    IF options = <<>> THEN <<>>
    ELSE IF Len(options) = 1 THEN options[1]
    ELSE options[1] \o <<NewLine>> \o JoinLines(Tail(options))

\* the lines of the text of the patterns knob
RECURSIVE SplitLinesFrom(_, _, _)
SplitLinesFrom(text, line, lines) ==
    IF text = <<>> THEN Append(lines, line)
    ELSE IF Head(text) = NewLine
         THEN SplitLinesFrom(Tail(text), <<>>, Append(lines, line))
         ELSE SplitLinesFrom(Tail(text), Append(line, Head(text)), lines)

SplitLines(text) == IF text = <<>> THEN <<>> ELSE SplitLinesFrom(text, <<>>, <<>>)

\* "VariableSwitch_<variant>" and "<switch_name>_<option>_Dot"
SwitchBaseName(variant) ==
    <<"V", "a", "r", "i", "a", "b", "l", "e", "S", "w", "i", "t", "c", "h", "_">> \o variant
DotBaseName(switch_name, option) ==
    switch_name \o <<"_">> \o option \o <<"_", "D", "o", "t">>

\* _create_switch_inputs that connects each Dot to the next free input
RECURSIVE CreateSwitchInputsCompact(_, _, _, _, _)
CreateSwitchInputsCompact(ns, sw, options, idx, failing) ==
    IF idx >= Len(options) THEN ns
    ELSE IF idx \in failing
         THEN CreateSwitchInputsCompact(ns, sw, options, idx + 1, failing)
         ELSE LET name == options[idx + 1]
                  dot  == [MkNode("Dot", UniqueName(ns, DotBaseName(ns[sw].name, name)))
                              EXCEPT !.label = name]
                  free == Cardinality(DOMAIN ns[sw].inputs)
                  n1   == Append(ns, dot)
                  n2   == [n1 EXCEPT ![sw].inputs = (free :> Len(n1)) @@ @]
              IN CreateSwitchInputsCompact(n2, sw, options, idx + 1, failing)

\* _create_switch_inputs, from option index idx on: a Dot per option, named,
\* labelled and connected to input idx; an option whose Dot cannot be created
\* (idx in failing) is skipped
RECURSIVE CreateSwitchInputs(_, _, _, _, _)
CreateSwitchInputs(ns, sw, options, idx, failing) ==
    IF idx >= Len(options) THEN ns
    ELSE IF idx \in failing
         THEN CreateSwitchInputs(ns, sw, options, idx + 1, failing)
         ELSE LET name == options[idx + 1]
                  dot  == [MkNode("Dot", UniqueName(ns, DotBaseName(ns[sw].name, name)))
                              EXCEPT !.label = name]
                  n1   == Append(ns, dot)
                  n2   == [n1 EXCEPT ![sw].inputs = (idx :> Len(n1)) @@ @]
              IN CreateSwitchInputs(n2, sw, options, idx + 1, failing)

\* _force_switch_variable: the variable knob takes "__default__.<variant>"
ForceSwitchVariable(ns, sw, variant) == [ns EXCEPT ![sw].variable = <<DefaultSet, variant>>]

\* _populate_switch_patterns: the patterns knob takes the joined options
PopulateSwitchPatterns(ns, sw, options) ==
    IF options = <<>> THEN ns ELSE [ns EXCEPT ![sw].patterns = JoinLines(options)]

\* create_variable_switch: the outcome for the section sec, when creating
\* the switch node fails (switchFails) or creating the Dots of the option
\* indices in failing fails
CreateVariableSwitch(ns, sel, mode, sec, switchFails, failing) ==
    LET variant == VariantName(sec)
        options == CollectOptions(sec)
        quiet   == [nodes |-> ns, selected |-> sel, undo |-> 0, message |-> 0, switch |-> 0]
        sw      == Len(ns) + 1
        n1      == Append(ns, MkNode("VariableSwitch", UniqueName(ns, SwitchBaseName(variant))))
        n2      == ForceSwitchVariable(n1, sw, variant)
        n3      == CreateSwitchInputs(n2, sw, options, 0, failing)
        n4      == PopulateSwitchPatterns(n3, sw, options)
    IN IF mode = "nonuke" THEN quiet
       ELSE IF variant = <<>> \/ options = <<>> THEN [quiet EXCEPT !.message = 1]
       ELSE IF switchFails THEN [quiet EXCEPT !.undo = 1, !.message = 1]
       ELSE [nodes |-> n4, selected |-> sel \cup {sw}, undo |-> 1, message |-> 0,
             switch |-> sw]

\* the sections the button is pressed on: a name and the rows the artist
\* has filled in
WNames == {<<>>, TxtV}
WOptTexts == {TxtA, TxtUpA, TxtB}
WSections ==
    {NewSection(name, options, None, FALSE) :
        name \in WNames, options \in SeqsUpTo(WOptTexts, MaxOpts)}

\* a Switch Manager with one section, with or without the nuke module
WInit ==
    /\ hostMode \in {"ok", "nonuke"}
    /\ gsv = EmptyGsv
    /\ lastOp = NoOp
    /\ \E sec \in WSections : sections = <<sec>>
    /\ sectionsLocked = FALSE
    /\ editEnabled = FALSE
    /\ addEnabled = TRUE
    /\ isSynced = FALSE
    /\ lastSync = NotASync
    /\ scrRows = <<>> /\ scrItems = <<>> /\ scrCur = 0
    /\ nodes = <<>> /\ selected = {} /\ undoCount = 0 /\ messages = 0
    /\ lastCall = NoCall
    /\ gestures = 0

\* the section's Create VariableSwitch button
WCreateSwitch ==
    \E i \in 1..Len(sections), switchFails \in BOOLEAN :
        \E failing \in SUBSET (0..(Len(CollectOptions(sections[i])) - 1)) :
            LET out == CreateVariableSwitch(nodes, selected, hostMode, sections[i],
                                            switchFails, failing)
            IN /\ MoreCalls
               /\ Len(nodes) + 1 + Len(CollectOptions(sections[i])) <= MaxNodes
               /\ nodes' = out.nodes
               /\ selected' = out.selected
               /\ undoCount' = undoCount + out.undo
               /\ messages' = messages + out.message
               /\ lastCall' = [op |-> "switch", sec |-> sections[i], failing |-> failing,
                               switch |-> out.switch, pre |-> nodes]
               /\ UNCHANGED <<gsvVars, panelVars, screenVars, userVars>>

WNext == WCreateSwitch

SpecSwitch == WInit /\ [][WNext]_vars

----------------------------------------------------------------------------
\* render_hooks: promotion of the knobs of a wrapped node

\* _RESERVED_KNOBS
RESERVED_KNOBS ==
    { <<"n", "a", "m", "e">>,
      <<"l", "a", "b", "e", "l">>,
      <<"x", "p", "o", "s">>,
      <<"y", "p", "o", "s">>,
      <<"s", "e", "l", "e", "c", "t", "e", "d">>,
      <<"h", "i", "d", "e", "_", "i", "n", "p", "u", "t">>,
      <<"n", "o", "t", "e", "_", "f", "o", "n", "t">>,
      <<"n", "o", "t", "e", "_", "f", "o", "n", "t", "_", "s", "i", "z", "e">>,
      <<"n", "o", "t", "e", "_", "f", "o", "n", "t", "_", "c", "o", "l", "o", "r">>,
      <<"t", "i", "l", "e", "_", "c", "o", "l", "o", "r">>,
      <<"g", "l", "_", "c", "o", "l", "o", "r">>,
      <<"c", "a", "c", "h", "e", "d">>,
      <<"k", "n", "o", "b", "C", "h", "a", "n", "g", "e", "d">>,
      <<"h", "e", "l", "p">>,
      <<"o", "n", "C", "r", "e", "a", "t", "e">>,
      <<"o", "n", "D", "e", "s", "t", "r", "o", "y">>,
      <<"n", "o", "d", "e", "_", "c", "l", "a", "s", "s">> }

TxtFile == <<"f", "i", "l", "e">>
TxtFileType == <<"f", "i", "l", "e", "_", "t", "y", "p", "e">>
TxtChannels == <<"c", "h", "a", "n", "n", "e", "l", "s">>
TxtViews == <<"v", "i", "e", "w", "s">>
TxtColorspace == <<"c", "o", "l", "o", "r", "s", "p", "a", "c", "e">>
TxtProxy == <<"p", "r", "o", "x", "y">>
TxtFirst == <<"f", "i", "r", "s", "t">>
TxtLast == <<"l", "a", "s", "t">>
TxtUseLimit == <<"u", "s", "e", "_", "l", "i", "m", "i", "t">>
TxtCreateDirectories == <<"c", "r", "e", "a", "t", "e", "_", "d", "i", "r", "e", "c", "t", "o", "r", "i", "e", "s">>
TxtPublishInstance == <<"p", "u", "b", "l", "i", "s", "h", "_", "i", "n", "s", "t", "a", "n", "c", "e">>

\* _DEFAULT_WRITE_KNOBS
DEFAULT_WRITE_KNOBS ==
    << TxtFile, TxtFileType, TxtChannels, TxtViews, TxtColorspace, TxtProxy, TxtFirst, TxtLast, TxtUseLimit, TxtCreateDirectories >>

\* _BCN_MANAGEMENT_TAB, the name of the Write tab, _WHITELIST_TOGGLE_PREFIX,
\* _SCREEN_SELECTOR_KNOB and the names of the label and of the button
BCN_MANAGEMENT_TAB == <<"b", "c", "n", "_", "w", "r", "a", "p", "p", "e", "r">>
WRITE_TAB == <<"W", "r", "i", "t", "e">>
WHITELIST_TOGGLE_PREFIX == <<"b", "c", "n", "_", "w", "h", "i", "t", "e", "l", "i", "s", "t", "_", "_">>
SCREEN_SELECTOR_KNOB == <<"b", "c", "n", "_", "s", "c", "r", "e", "e", "n", "_", "s", "e", "l", "e", "c", "t", "o", "r">>
BCN_LABEL == <<"b", "c", "n", "_", "l", "a", "b", "e", "l">>
BCN_REFRESH == <<"b", "c", "n", "_", "r", "e", "f", "r", "e", "s", "h">>
TxtItem == <<"i", "t", "e", "m">>
TxtExposeThe == <<"E", "x", "p", "o", "s", "e", " ", "t", "h", "e", " ", "'">>
TxtKnobOn == <<"'", " ", "k", "n", "o", "b", " ", "o", "n", " ", "t", "h", "i", "s", " ", "w", "r", "a", "p", "p", "e", "r">>

\* the character class [0-9A-Za-z_]
KnobSafeChar(ch) ==
    ch \in { "0", "1", "2", "3", "4", "5", "6", "7", "8", "9", "A", "B", "C",
             "D", "E", "F", "G", "H", "I", "J", "K", "L", "M", "N", "O", "P",
             "Q", "R", "S", "T", "U", "V", "W", "X", "Y", "Z", "a", "b", "c",
             "d", "e", "f", "g", "h", "i", "j", "k", "l", "m", "n", "o", "p",
             "q", "r", "s", "t", "u", "v", "w", "x", "y", "z", "_" }

\* the positions of the sequence s, in order
Indices(s) == [i \in 1..Len(s) |-> i]

\* re.sub(r"[^0-9A-Za-z_]+", "_", s): every run of other characters becomes
\* one underscore, which stands where the run begins
SubUnsafe(s) ==
    LET kept == SelectSeq(Indices(s),
                          LAMBDA i : KnobSafeChar(s[i]) \/ i = 1 \/ KnobSafeChar(s[i - 1]))
    IN [n \in 1..Len(kept) |-> IF KnobSafeChar(s[kept[n]]) THEN s[kept[n]] ELSE "_"]

\* _toggle_knob_name
ToggleKnobName(knobName) ==
    LET safe == SubUnsafe(Strip(knobName))
    IN WHITELIST_TOGGLE_PREFIX \o (IF safe = <<>> THEN TxtItem ELSE safe)

\* _whitelist_tooltip
WhitelistTooltip(knobName) == TxtExposeThe \o knobName \o TxtKnobOn

\* s starts with the text p
StartsWith(s, p) == Len(s) >= Len(p) /\ SubSeq(s, 1, Len(p)) = p

\* the longest prefix of s without a quote character
UpToQuote(s) ==
    LET quotes == {i \in 1..Len(s) : s[i] = "'"}
    IN IF quotes = {} THEN s
       ELSE SubSeq(s, 1, (CHOOSE i \in quotes : \A j \in quotes : i <= j) - 1)

\* str.replace("__", "_"), left to right without overlap
RECURSIVE HalveUnderscores(_)
HalveUnderscores(s) ==
    IF Len(s) < 2 THEN s
    ELSE IF s[1] = "_" /\ s[2] = "_"
         THEN <<"_">> \o HalveUnderscores(SubSeq(s, 3, Len(s)))
         ELSE <<Head(s)>> \o HalveUnderscores(Tail(s))

\* _original_name_from_toggle for a toggle whose tooltip, when it has one,
\* was written by _whitelist_tooltip: the quoted name of the tooltip, and
\* the toggle name without its prefix when the pattern does not match
OriginalNameFromToggle(toggle) ==
    LET rest == SubSeq(toggle.tooltip, Len(TxtExposeThe) + 1, Len(toggle.tooltip))
        quoted == UpToQuote(rest)
        matches == /\ StartsWith(toggle.tooltip, TxtExposeThe)
                   /\ quoted # <<>>
                   /\ StartsWith(SubSeq(rest, Len(quoted) + 1, Len(rest)),
                                 SubSeq(TxtKnobOn, 1, 6))
    IN IF matches THEN quoted
       ELSE HalveUnderscores(SubSeq(toggle.name, Len(WHITELIST_TOGGLE_PREFIX) + 1,
                                    Len(toggle.name)))

\* the names of all knobs of a node: its own ones and those this module
\* added to it
KnobNames(g) ==
    g.knobs \cup Range(g.tabs) \cup Range(g.links)
        \cup {g.toggles[i].name : i \in 1..Len(g.toggles)}
        \cup (IF g.hasLabel THEN {BCN_LABEL} ELSE {})
        \cup (IF g.refresh THEN {BCN_REFRESH} ELSE {})
        \cup (IF g.selector.present THEN {SCREEN_SELECTOR_KNOB} ELSE {})

\* _ensure_tab
EnsureTab(g, name) ==
    IF name \in KnobNames(g) THEN g ELSE [g EXCEPT !.tabs = Append(@, name)]

\* the position of the toggle with the given name, 0 when there is none
ToggleIndex(toggles, name) ==
    IF \E i \in 1..Len(toggles) : toggles[i].name = name
    THEN CHOOSE i \in 1..Len(toggles) : toggles[i].name = name
    ELSE 0

\* the loop of _ensure_management_tab over knob_order: an existing toggle
\* is shown again and keeps its value, a new one is created enabled at the
\* first knob that needs it; either way the toggle ends with the tooltip
\* of the last knob of knob_order that has its name
EnsureToggles(toggles, knobOrder) ==
    LET names == [i \in 1..Len(knobOrder) |-> ToggleKnobName(knobOrder[i])]
        lastFor(name) ==
            CHOOSE i \in 1..Len(names) :
                names[i] = name /\ \A j \in (i + 1)..Len(names) : names[j] # name
        updated == [i \in 1..Len(toggles) |->
                       IF toggles[i].name \in Range(names)
                       THEN [toggles[i] EXCEPT
                                !.tooltip = WhitelistTooltip(knobOrder[lastFor(toggles[i].name)]),
                                !.visible = TRUE]
                       ELSE toggles[i]]
        fresh == SelectSeq(Indices(names),
                     LAMBDA i : /\ ToggleIndex(toggles, names[i]) = 0
                                /\ \A j \in 1..(i - 1) : names[j] # names[i])
    IN updated \o [n \in 1..Len(fresh) |->
                      [name    |-> names[fresh[n]],
                       tooltip |-> WhitelistTooltip(knobOrder[lastFor(names[fresh[n]])]),
                       value   |-> TRUE, visible |-> TRUE]]

\* the loop of _ensure_management_tab that hides the toggles of knobs that
\* are not in knob_order
HideStaleToggles(toggles, knobOrder) ==
    LET keep == {ToggleKnobName(knobOrder[i]) : i \in 1..Len(knobOrder)}
    IN [i \in 1..Len(toggles) |->
            IF toggles[i].name \in keep THEN toggles[i]
            ELSE [toggles[i] EXCEPT !.visible = FALSE]]

\* a management tab that gets its label and its button but no checkboxes
EnsureManagementTabNoToggles(g, knobOrder) ==
    [EnsureTab(g, BCN_MANAGEMENT_TAB) EXCEPT !.hasLabel = TRUE, !.refresh = TRUE]

\* _ensure_management_tab on a wrapper without the legacy bcn_knob_whitelist
\* knob, which no wrapper built by this module has
EnsureManagementTab(g, knobOrder) ==
    LET tabbed == EnsureTab(g, BCN_MANAGEMENT_TAB)
    IN [tabbed EXCEPT
           !.hasLabel = TRUE,
           !.toggles  = HideStaleToggles(EnsureToggles(@, knobOrder), knobOrder),
           !.refresh  = TRUE]

\* _get_group_screen: the value the group holds itself, None without one
GetGroupScreen(g) ==
    IF ScreensPath \in DOMAIN g.local THEN g.local[ScreensPath] ELSE None

\* _set_group_screen: only a VariableGroup has the gsv knob, on any other
\* node the lookup raises and nothing is written
SetGroupScreen(g, screen) ==
    IF screen = None \/ screen = <<>> THEN g
    ELSE IF g.class # "VariableGroup" THEN g
    ELSE [g EXCEPT !.local = (ScreensPath :> screen) @@ @]

\* a group without the Screen pulldown
NoSelector == [present |-> FALSE, values |-> <<>>, value |-> <<>>, visible |-> FALSE]

\* _ensure_screen_selector
EnsureScreenSelector(g, st, mode) ==
    LET screens == get_list_options(st, mode, ScreensPath)
    IN IF screens = <<>>
       THEN [g EXCEPT !.selector.visible = FALSE]
       ELSE LET current  == GetGroupScreen(g)
                root     == get_variant_value(st, mode, ScreensName)
                fallback == IF root # None /\ root # <<>> THEN root ELSE screens[1]
                stale    == current = None \/ current = <<>> \/ current \notin Range(screens)
                shown    == IF stale THEN fallback ELSE current
                withSel  == [g EXCEPT !.selector =
                                [present |-> TRUE, values |-> screens,
                                 value   |-> shown, visible |-> TRUE]]
            IN IF stale THEN SetGroupScreen(withSel, fallback) ELSE withSel

\* _add_link_knob: whether the call adds the link, for a group and a source
\* node with the given knob names
AddLinkKnob(groupKnobs, srcKnobs, name) ==
    /\ name \notin RESERVED_KNOBS
    /\ name \notin groupKnobs
    /\ name \in srcKnobs

\* the loop of expose over knob_order: a name gets its link at its first
\* place in knob_order, where the group does not have a knob of that name yet
AddLinkKnobs(g, src, knobOrder) ==
    LET groupKnobs == KnobNames(g)
        srcKnobs   == KnobNames(src)
        added == SelectSeq(Indices(knobOrder),
                     LAMBDA i : /\ AddLinkKnob(groupKnobs, srcKnobs, knobOrder[i])
                                /\ \A j \in 1..(i - 1) : knobOrder[j] # knobOrder[i])
    IN [g EXCEPT !.links = @ \o [n \in 1..Len(added) |-> knobOrder[added[n]]]]

\* WriteKnobPromoter._group_whitelist: the knobs of the enabled toggles in
\* the order of the toggles; any is FALSE for a group without toggles,
\* for which the function returns None
GroupWhitelist(g) ==
    LET enabled == SelectSeq(g.toggles, LAMBDA t : t.value)
    IN [any      |-> g.toggles # <<>>,
        selected |-> [i \in 1..Len(enabled) |-> OriginalNameFromToggle(enabled[i])]]

\* WriteKnobPromoter._knob_list_for with the configuration the module uses,
\* which has no per-file-type lists: `if override:` is false for None and for
\* the empty list alike
KnobListFor(g) ==
    LET override == GroupWhitelist(g)
    IN IF override.any /\ override.selected # <<>>
       THEN override.selected
       ELSE DEFAULT_WRITE_KNOBS

\* "[value gsv]"
WrapperLabel == <<"[", "v", "a", "l", "u", "e", " ", "g", "s", "v", "]">>

\* WriteKnobPromoter.expose
Expose(g, src, st, mode) ==
    LET knob_order == KnobListFor(g)
        managed    == EnsureManagementTab(g, knob_order)
        tabbed     == EnsureTab(managed, WRITE_TAB)
        screened   == EnsureScreenSelector(tabbed, st, mode)
        linked     == AddLinkKnobs(screened, src, knob_order)
    IN [linked EXCEPT !.label = WrapperLabel]

\* _find_internal_node: the node called original_name when a name is given
\* and one has it, else the first with publish_instance when that is
\* preferred, else the first Write, else the first node; 0 for None
FindInternalNode(g, prefer_publish_instance, original_name) ==
    LET inside == 1..Len(g.inner)
        First(S) == CHOOSE i \in S : \A j \in S : i <= j
        named    == {i \in inside : /\ original_name # None /\ original_name # <<>>
                                  /\ g.inner[i].name = original_name}
        publish  == {i \in inside : prefer_publish_instance /\ g.inner[i].publish}
        writes   == {i \in inside : g.inner[i].class = "Write"}
    IN IF named # {} THEN First(named)
       ELSE IF publish # {} THEN First(publish)
       ELSE IF writes # {} THEN First(writes)
       ELSE IF inside # {} THEN First(inside)
       ELSE 0

----------------------------------------------------------------------------
\* render_hooks.encapsulate_write_with_variable_group

\* the class test that accepts every Group
WrapAcceptsAnyGroup(node) == node.class = "Write" \/ node.class = "Group"

\* the class test of encapsulate_write_with_variable_group
WrapAccepts(node) ==
    node.class = "Write" \/ (node.class = "Group" /\ node.publish)

\* "<original_name>_VG"
WrapperName(name) == name \o <<"_", "V", "G">>

\* _collapse_into_variable_group followed by group.setName: node t is
\* replaced by a VariableGroup that contains it
CollapseIntoVariableGroup(ns, t) ==
    [MkNode("VariableGroup", WrapperName(ns[t].name)) EXCEPT !.inner = <<ns[t]>>]

\* what encapsulate_write_with_variable_group does with the new group: it
\* looks the wrapped node up, names it as before, promotes its knobs and
\* labels the wrapper; found is 0 when the group does not hold the node
PromoteInto(group, original, st, mode) ==
    LET at == FindInternalNode(group, original.class = "Group" /\ original.publish,
                               original.name)
    IN IF at = 0 THEN [group |-> group, found |-> 0]
       ELSE LET named == [group EXCEPT !.inner[at].name = original.name]
            IN [group |-> [Expose(named, named.inner[at], st, mode)
                               EXCEPT !.label = WrapperLabel],
                found |-> at]

\* encapsulate_write_with_variable_group(node): target is the index of the
\* node it works on, 0 when nuke.selectedNode() raised because nothing is
\* selected; collapseFails when nuke.collapseToVariableGroup() raises
Encapsulate(ns, sel, target, collapseFails, st, mode) ==
    LET refused == [nodes |-> ns, selected |-> sel, undo |-> 0, message |-> 1, result |-> 0]
    IN IF target = 0 THEN refused
       ELSE IF ~WrapAccepts(ns[target]) THEN refused
       ELSE IF collapseFails
            THEN [nodes |-> ns, selected |-> sel, undo |-> 1, message |-> 0, result |-> 0]
            ELSE LET promoted == PromoteInto(CollapseIntoVariableGroup(ns, target),
                                             ns[target], st, mode)
                 IN [nodes |-> [ns EXCEPT ![target] = promoted.group],
                     selected |-> {target}, undo |-> 1,
                     message |-> IF promoted.found = 0 THEN 1 ELSE 0,
                     result |-> target]

\* the value _on_screen_selector_changed settles on for the group g: the
\* text it is given, the option at an index in range, the string of an
\* index out of range, and the text the pulldown shows when it is given
\* nothing; None when there is nothing to write
SelectedScreen(g, selection) ==
    LET shown == IF g.selector.present THEN g.selector.value ELSE None
        given ==
            CASE selection.kind = "text"  -> selection.text
              [] selection.kind = "index" ->
                    IF ~g.selector.present THEN None
                    ELSE IF selection.index < Len(g.selector.values)
                         THEN g.selector.values[selection.index + 1]
                         ELSE <<Digit(selection.index)>>
              [] OTHER -> None
    IN IF given = None \/ given = <<>> THEN shown ELSE given

\* a callback that writes the screen to the root GSV and to every group
OnScreenSelectorChangedEverywhere(ns, st, target, selection) ==
    LET value == SelectedScreen(ns[target], selection)
    IN IF value = None \/ value = <<>> THEN [nodes |-> ns, gsv |-> st]
       ELSE [nodes |-> [i \in 1..Len(ns) |-> SetGroupScreen(ns[i], value)],
             gsv   |-> HostSetGsvValue(st, ScreensPath, value)]

\* _on_screen_selector_changed(group, selection) for the node at target:
\* the graph and the root GSV as the call leaves them
OnScreenSelectorChanged(ns, st, target, selection) ==
    [nodes |-> [ns EXCEPT ![target] = SetGroupScreen(@, SelectedScreen(@, selection))],
     gsv   |-> st]

\* a script with a Write, a publishable Group, a plain Group and two nodes
\* of other classes
TxtWrite1 == <<"W", "r", "i", "t", "e", "1">>
TxtGroup1 == <<"G", "r", "o", "u", "p", "1">>
TxtGroup2 == <<"G", "r", "o", "u", "p", "2">>
TxtBlur1  == <<"B", "l", "u", "r", "1">>
SeedGraph ==
    << [MkNode("Write", TxtWrite1) EXCEPT !.knobs = Range(DEFAULT_WRITE_KNOBS)],
       [MkNode("Group", TxtGroup1) EXCEPT !.publish = TRUE,
                                          !.knobs = {TxtPublishInstance, TxtFile}],
       MkNode("Group", TxtGroup2),
       [MkNode("Blur", TxtBlur1) EXCEPT !.publish = TRUE,
                                        !.knobs = {TxtPublishInstance}] >>

EInit ==
    /\ hostMode = "ok"
    /\ gsv \in {EmptyGsv, SeedScreens}
    /\ lastOp = NoOp
    /\ sections = <<>> /\ isSynced = FALSE /\ sectionsLocked = FALSE
    /\ editEnabled = TRUE /\ addEnabled = TRUE
    /\ lastSync = NotASync
    /\ scrRows = <<>> /\ scrItems = <<>> /\ scrCur = 0
    /\ nodes = SeedGraph /\ selected = {} /\ undoCount = 0 /\ messages = 0
    /\ lastCall = NoCall
    /\ gestures = 0

EFrame == UNCHANGED <<gsvVars, panelVars, screenVars, userVars>>

\* the artist selects or deselects a node in the graph
ESelect ==
    \E i \in 1..Len(nodes) :
        /\ selected' = IF i \in selected THEN selected \ {i} ELSE selected \cup {i}
        /\ lastCall' = NoCall
        /\ UNCHANGED <<nodes, undoCount, messages>>
        /\ EFrame

\* encapsulate_write_with_variable_group(node): arg is the node passed in,
\* 0 for None, when the function takes nuke.selectedNode()
EEncapsulate ==
    \E arg \in 0..Len(nodes), collapseFails \in BOOLEAN :
        \E target \in (IF arg # 0 THEN {arg} ELSE IF selected = {} THEN {0} ELSE selected) :
            LET out == Encapsulate(nodes, selected, target, collapseFails, gsv, hostMode)
            IN /\ MoreCalls
               /\ nodes' = out.nodes
               /\ selected' = out.selected
               /\ undoCount' = undoCount + out.undo
               /\ messages' = messages + out.message
               /\ lastCall' = [op |-> "wrap", arg |-> arg, target |-> target,
                               result |-> out.result, pre |-> nodes,
                               preSelected |-> selected, preUndo |-> undoCount,
                               preMessages |-> messages]
               /\ EFrame

ENext ==
    \/ ESelect
    \/ EEncapsulate

SpecWrap == EInit /\ [][ENext]_vars

----------------------------------------------------------------------------
\* The wrapper's BCN Wrapper tab in use: the artist ticks and unticks the
\* whitelist checkboxes and presses Refresh Links

\* refresh_variable_group_links(group): the node as the call leaves it
RefreshVariableGroupLinks(g, st, mode) ==
    IF g.class # "VariableGroup" THEN g
    ELSE LET at == FindInternalNode(g, FALSE, None)
         IN IF at = 0 THEN g ELSE Expose(g, g.inner[at], st, mode)

\* the wrapper g with every whitelist checkbox unticked
AllUnticked(g) ==
    [g EXCEPT !.toggles = [i \in 1..Len(@) |-> [@[i] EXCEPT !.value = FALSE]]]

\* a script with screens in which the Write has been wrapped; the artist
\* has left the checkboxes of the wrapper as they were built or has unticked
\* them all
LInit ==
    /\ hostMode = "ok"
    /\ gsv = SeedScreens
    /\ lastOp = NoOp
    /\ sections = <<>> /\ isSynced = FALSE /\ sectionsLocked = FALSE
    /\ editEnabled = TRUE /\ addEnabled = TRUE
    /\ lastSync = NotASync
    /\ scrRows = <<>> /\ scrItems = <<>> /\ scrCur = 0
    /\ \E built \in {Encapsulate(SeedGraph, {}, 1, FALSE, gsv, hostMode).nodes} :
           nodes \in {built, [built EXCEPT ![1] = AllUnticked(@)]}
    /\ selected = {1} /\ undoCount = 0 /\ messages = 0
    /\ lastCall = NoCall
    /\ gestures = 0

\* how many clicks on the checkboxes of a wrapper a session may see
MaxClicks == 2

\* the artist clicks a checkbox that the BCN Wrapper tab shows
LToggle ==
    \E g \in 1..Len(nodes) :
        \E i \in 1..Len(nodes[g].toggles) :
            /\ nodes[g].toggles[i].visible
            /\ gestures < MaxClicks
            /\ gestures' = gestures + 1
            /\ nodes' = [nodes EXCEPT ![g].toggles[i].value = ~@]
            /\ lastCall' = NoCall
            /\ UNCHANGED <<selected, undoCount, messages>>
            /\ UNCHANGED <<gsvVars, panelVars, screenVars>>

\* the Refresh Links button of a wrapper, or refresh_variable_group_links
\* called with any other node
LRefresh ==
    \E g \in 1..Len(nodes) :
        /\ nodes' = [nodes EXCEPT ![g] = RefreshVariableGroupLinks(@, gsv, hostMode)]
        /\ lastCall' = [op |-> "refresh", target |-> g,
                        result |-> Len(nodes'[g].links) - Len(nodes[g].links)]
        /\ UNCHANGED <<selected, undoCount, messages>>
        /\ EFrame

LNext ==
    \/ LToggle
    \/ LRefresh

SpecLinks == LInit /\ [][LNext]_vars

----------------------------------------------------------------------------
\* The Screen pulldown of the wrappers in use

\* a script, with or without screens, in which the Write and the publishable
\* Group have been wrapped
NInit ==
    /\ hostMode = "ok"
    /\ gsv \in {EmptyGsv, SeedScreens}
    /\ lastOp = NoOp
    /\ sections = <<>> /\ isSynced = FALSE /\ sectionsLocked = FALSE
    /\ editEnabled = TRUE /\ addEnabled = TRUE
    /\ lastSync = NotASync
    /\ scrRows = <<>> /\ scrItems = <<>> /\ scrCur = 0
    /\ \E ns \in {Encapsulate(SeedGraph, {}, 1, FALSE, gsv, hostMode).nodes} :
           nodes = Encapsulate(ns, {1}, 2, FALSE, gsv, hostMode).nodes
    /\ selected = {2} /\ undoCount = 0 /\ messages = 0
    /\ lastCall = NoCall
    /\ gestures = 0

\* what the knobChanged callback and other callers pass as the selection:
\* a screen name, another text, the empty text, an index, or None
NSelections ==
    {[kind |-> "text", text |-> t, index |-> 0] : t \in {<<"A">>, <<"b">>, TxtK, <<>>}}
        \cup {[kind |-> "index", text |-> <<>>, index |-> i] : i \in 0..2}
        \cup {[kind |-> "none", text |-> <<>>, index |-> 0]}

\* _on_screen_selector_changed(group, selection) for a node of the graph
NSelectorChanged ==
    \E g \in 1..Len(nodes), selection \in NSelections :
        LET out == OnScreenSelectorChanged(nodes, gsv, g, selection)
        IN /\ nodes' = out.nodes
           /\ gsv' = out.gsv
           /\ lastCall' = [op |-> "selector", target |-> g, pre |-> nodes, preGsv |-> gsv]
           /\ UNCHANGED <<selected, undoCount, messages>>
           /\ UNCHANGED <<hostMode, lastOp, panelVars, screenVars, userVars>>

NNext == NSelectorChanged

SpecSelector == NInit /\ [][NNext]_vars

----------------------------------------------------------------------------
\* collect_options and _collect_screens_from_rows as functions of the texts
\* in the row editors

\* how many rows are collected from
MaxCollectRows == 3

\* what a row editor may hold
CRowTexts ==
    { <<>>, <<" ">>, <<"a">>, <<" ", "a">>, <<"a", "!">>, <<"A">>,
      <<"a", " ", "b">>, <<"-", "_">>, <<"!", "1">> }

CInit ==
    /\ hostMode = "ok"
    /\ gsv = EmptyGsv
    /\ lastOp = NoOp
    /\ sections = <<>> /\ isSynced = FALSE /\ sectionsLocked = FALSE
    /\ editEnabled = TRUE /\ addEnabled = TRUE
    /\ lastSync = NotASync
    /\ scrRows \in SeqsUpTo(CRowTexts, MaxCollectRows)
    /\ scrItems = <<>> /\ scrCur = 0
    /\ nodes = <<>> /\ selected = {} /\ undoCount = 0 /\ messages = 0
    /\ lastCall = NoCall
    /\ gestures = 0

CFrame == UNCHANGED <<gsvVars, panelVars, screenVars, userVars, nodes, selected,
                      undoCount, messages>>

\* collect_options() of a section whose row editors hold scrRows
CCollectOptions ==
    /\ lastCall' = [op |-> "collect_options", rows |-> scrRows,
                    result |-> CollectOptions([rows |-> scrRows])]
    /\ CFrame

\* _collect_screens_from_rows() of a Screens Manager whose row editors hold
\* scrRows
CCollectScreens ==
    /\ lastCall' = [op |-> "collect_screens", rows |-> scrRows,
                    result |-> CollectScreens(scrRows)]
    /\ CFrame

CNext ==
    \/ CCollectOptions
    \/ CCollectScreens

SpecCollect == CInit /\ [][CNext]_vars

----------------------------------------------------------------------------
\* Properties of gsv_utils

\* the last call was an ensure_variant_list that got past its early returns
\* with a working host
EnsureWrote ==
    /\ lastOp.op = "ensure_variant_list"
    /\ hostMode = "ok"
    /\ Strip(lastOp.name) # <<>>
    /\ \E i \in 1..Len(lastOp.opts) : Strip(lastOp.opts[i]) # <<>>

EnsuredPath == <<DefaultSet, Strip(lastOp.name)>>

\* index of the first input option that strips to t
FirstIndex(t) ==
    CHOOSE j \in 1..Len(lastOp.opts) :
        /\ Strip(lastOp.opts[j]) = t
        /\ \A k \in 1..(j - 1) : Strip(lastOp.opts[k]) # t

\* C4: the list options ensure_variant_list stores are the input options
\* stripped, without empty texts and without duplicates, each kept at its
\* first occurrence and in the input's order.
C4_StoredOptionsNormalized ==
    EnsureWrote =>
        /\ EnsuredPath \in DOMAIN gsv.options
        /\ LET stored == gsv.options[EnsuredPath]
               opts   == lastOp.opts
           IN /\ \A i \in 1..Len(stored) :
                    /\ stored[i] # <<>>
                    /\ \E j \in 1..Len(opts) : Strip(opts[j]) = stored[i]
              /\ \A j \in 1..Len(opts) :
                    Strip(opts[j]) # <<>> => \E i \in 1..Len(stored) : stored[i] = Strip(opts[j])
              /\ \A i, k \in 1..Len(stored) :
                    i < k => /\ stored[i] # stored[k]
                             /\ FirstIndex(stored[i]) < FirstIndex(stored[k])

\* a call whose input held a blank option and two spellings of one option
C4_Witness ==
    /\ EnsureWrote
    /\ \E i \in 1..Len(lastOp.opts) : Strip(lastOp.opts[i]) = <<>>
    /\ \E i, j \in 1..Len(lastOp.opts) :
          /\ i < j
          /\ lastOp.opts[i] # lastOp.opts[j]
          /\ Strip(lastOp.opts[i]) = Strip(lastOp.opts[j])
    /\ gsv.options[EnsuredPath] = <<TxtA>>

\* C5: after an ensure_variant_list that writes, the variant's value is
\* default_option when that is one of the stored options and the first stored
\* option otherwise, so the value is always one of the stored options.
C5_ValueAmongOptions ==
    EnsureWrote =>
        LET stored == gsv.options[EnsuredPath]
            value  == gsv.value[DefaultSet][Strip(lastOp.name)]
        IN /\ value = (IF lastOp.dflt \in Range(stored) THEN lastOp.dflt ELSE stored[1])
           /\ value \in Range(stored)

\* both branches of the choice: a default that is a later option, and a
\* default that is no option
C5_Witness ==
    /\ EnsureWrote
    /\ lastOp.dflt = TxtUpA
    /\ \/ gsv.options[EnsuredPath] = <<TxtA, TxtUpA>> /\ gsv.value[DefaultSet][TxtV] = TxtUpA
       \/ gsv.options[EnsuredPath] = <<TxtA>> /\ gsv.value[DefaultSet][TxtV] = TxtA

\* one call of gsv_utils is defensive
C6Step ==
    /\ lastOp'.raised = FALSE
    /\ hostMode # "ok" =>
          /\ gsv' = gsv
          /\ lastOp'.retList = <<>>
          /\ lastOp'.retText = None
          /\ lastOp'.retMap = EmptyMap
    /\ ( /\ lastOp'.op = "ensure_variant_list"
         /\ \/ Strip(lastOp'.name) = <<>>
            \/ \A i \in 1..Len(lastOp'.opts) : Strip(lastOp'.opts[i]) = <<>> )
       => gsv' = gsv

\* C6: no gsv_utils call raises; without a working host a read returns its
\* empty result and a write leaves the GSV unchanged; ensure_variant_list
\* with a blank name or with only blank options leaves the GSV unchanged.
C6_Defensive == [][C6Step]_vars

\* a write attempted on a populated GSV while every host call raises
C6_Witness ==
    /\ hostMode = "raises"
    /\ lastOp.op \in {"set_value", "remove_variant", "set_knob_value"}
    /\ gsv = SeedGsv

\* one call of merge_root_value with a working host
C7Step ==
    (lastOp'.op = "merge_root_value" /\ hostMode = "ok") =>
        LET upd  == lastOp'.upd
            old  == gsv.value
            new  == gsv'.value
            Named(s, k) == s \in DOMAIN upd /\ upd[s].isMap /\ k \in DOMAIN upd[s].map
        IN /\ \A s \in DOMAIN upd :
                upd[s].isMap =>
                    /\ s \in DOMAIN new
                    /\ \A k \in DOMAIN upd[s].map :
                          k \in DOMAIN new[s] /\ new[s][k] = upd[s].map[k]
           /\ \A s \in DOMAIN old :
                /\ s \in DOMAIN new
                /\ \A k \in DOMAIN old[s] :
                      ~Named(s, k) => k \in DOMAIN new[s] /\ new[s][k] = old[s][k]
           /\ \A s \in DOMAIN upd :
                ~upd[s].isMap =>
                    /\ s \in DOMAIN new <=> s \in DOMAIN old
                    /\ s \in DOMAIN old => new[s] = old[s]

\* C7: merge_root_value gives every (set, variable) named in updates the
\* update's value, keeps every other (set, variable) of the previous mapping
\* at its previous value, and ignores update entries that are not mappings.
C7_DeepMerge == [][C7Step]_vars

\* a merge into a set that kept another variable, next to an ignored entry
C7_Witness ==
    /\ hostMode = "ok"
    /\ lastOp.op = "merge_root_value"
    /\ DefaultSet \in DOMAIN lastOp.upd /\ lastOp.upd[DefaultSet] = MapEntry(TxtK, TxtB)
    /\ TxtS \in DOMAIN lastOp.upd /\ ~lastOp.upd[TxtS].isMap
    /\ gsv.value[DefaultSet] = (TxtK :> TxtB) @@ (TxtV :> TxtB) @@ (TxtW :> TxtA)
    /\ gsv.value[TxtS] = (TxtV :> TxtB)

----------------------------------------------------------------------------
\* Properties of the Switch Manager panel (specification Spec)

\* the last handler was _on_sync
JustSynced == lastSync.op = "sync"

\* the root GSV holds the list variant of section sec: its options in row
\* order, its current selection as value
HoldsSection(st, mode, sec) ==
    LET name == VariantName(sec)
        path == <<DefaultSet, name>>
    IN /\ HostExists(st, path)
       /\ path \in DOMAIN st.type /\ st.type[path] = "List"
       /\ HostGetListOptions(st, path) = CollectOptions(sec)
       /\ HostGetGsvValue(st, path) = CurrentSelection(sec)

\* section i is the last syncable section of secs with its name
LastOfItsName(secs, i) ==
    \A j \in (i + 1)..Len(secs) :
        IsSyncable(secs[j]) => VariantName(secs[j]) # VariantName(secs[i])

\* C1 as stated: after _on_sync the root GSV holds, for EVERY syncable
\* section the sync started from, a list variant with that section's options
\* in row order and that section's current selection as value
C1_SyncWritesEverySection ==
    JustSynced =>
        \A i \in 1..Len(lastSync.pre) :
            IsSyncable(lastSync.pre[i]) => HoldsSection(gsv, hostMode, lastSync.pre[i])

\* C1 amended: after _on_sync the root GSV holds, for every syncable section
\* that is the last syncable section with its name (so for every syncable
\* section when the names are distinct), a list variant with that section's
\* options in row order and that section's current selection as value
C1_SyncWritesLastOfEachName ==
    JustSynced =>
        \A i \in 1..Len(lastSync.pre) :
            (IsSyncable(lastSync.pre[i]) /\ LastOfItsName(lastSync.pre, i))
                => HoldsSection(gsv, hostMode, lastSync.pre[i])

\* a sync that started from two syncable sections of one name with different
\* options, the later one with its second option selected
C1_Witness ==
    /\ JustSynced
    /\ \E i, j \in 1..Len(lastSync.pre) :
          /\ i < j
          /\ IsSyncable(lastSync.pre[i]) /\ IsSyncable(lastSync.pre[j])
          /\ VariantName(lastSync.pre[i]) = VariantName(lastSync.pre[j])
          /\ CollectOptions(lastSync.pre[i]) # CollectOptions(lastSync.pre[j])
          /\ HoldsSection(gsv, hostMode, lastSync.pre[j])

\* C2: after _on_sync every list variant that existed before the sync and is
\* not the name of a syncable section is gone from __default__, and the list
\* variants discovered in the root GSV are exactly the names of the syncable
\* sections the sync started from
C2_SyncLeavesSyncableNames ==
    JustSynced =>
        /\ \A n \in lastSync.before \ SyncedVariants(lastSync.pre) :
              ~HostExists(gsv, <<DefaultSet, n>>)
        /\ DOMAIN discover_list_variants(gsv, hostMode) = SyncedVariants(lastSync.pre)

\* a sync that wrote one variant and removed another that existed before
C2_Witness ==
    /\ JustSynced
    /\ SyncedVariants(lastSync.pre) # {}
    /\ lastSync.before \ SyncedVariants(lastSync.pre) # {}

\* the UI mirrors the root GSV: the names of the named sections are the
\* list-variant names, each section shows its variant's options in order and its variant's value
\* as the current item
UiMirrorsGsv(st, mode, secs) ==
    LET gsv_variants == discover_list_variants(st, mode)
        named == {i \in 1..Len(secs) : VariantName(secs[i]) # <<>>}
    IN /\ {VariantName(secs[i]) : i \in named} = DOMAIN gsv_variants
       /\ \A i \in named :
             VariantName(secs[i]) \in DOMAIN gsv_variants =>
                 /\ CollectOptions(secs[i]) = gsv_variants[VariantName(secs[i])]
                 /\ CurrentText(secs[i]) = HostGetGsvValue(st, <<DefaultSet, VariantName(secs[i])>>)

\* C3 as stated: whenever the panel is marked synced the UI mirrors the root
\* GSV (names, options in order, current selection = value)
C3_SyncedMirrorsGsv == isSynced => UiMirrorsGsv(gsv, hostMode, sections)

----------------------------------------------------------------------------
\* Properties of the Screens Manager (specification SpecScreens)

\* the VariableGroups of the graph whose local __default__.screens is screen
GroupsOfScreen(ns, screen) ==
    {i \in 1..Len(ns) :
        /\ ns[i].class = "VariableGroup"
        /\ ScreensPath \in DOMAIN ns[i].local
        /\ ns[i].local[ScreensPath] = screen}

\* the last handler was _on_groups or _on_apply
JustBuiltGroups == lastCall.op \in {"groups", "apply"}

\* C8 as stated: after _on_groups or _on_apply, however often they ran
\* before, the graph holds exactly one VariableGroup per screen, and the
\* local __default__.screens of each group is its screen name
C8_OneGroupPerScreen ==
    JustBuiltGroups =>
        \A k \in 1..Len(lastCall.screens) :
            /\ Cardinality(GroupsOfScreen(nodes, lastCall.screens[k])) = 1
            /\ \A i \in 1..Len(nodes) :
                  nodes[i].name = ScreenGroupName(lastCall.screens[k]) =>
                      i \in GroupsOfScreen(nodes, lastCall.screens[k])

----------------------------------------------------------------------------
\* Properties of create_variable_switch (specification SpecSwitch)

\* the last call was create_variable_switch and it created its switch
SwitchCreated == lastCall.op = "switch" /\ lastCall.switch > 0

\* input idx of switch sw is connected to a Dot labelled text
InputIsDot(ns, sw, idx, text) ==
    /\ idx \in DOMAIN ns[sw].inputs
    /\ ns[ns[sw].inputs[idx]].class = "Dot"
    /\ ns[ns[sw].inputs[idx]].label = text

\* pattern idx of switch sw is text
PatternIs(ns, sw, idx, text) ==
    /\ idx < Len(SplitLines(ns[sw].patterns))
    /\ SplitLines(ns[sw].patterns)[idx + 1] = text

\* the VariableSwitch nodes of a graph
SwitchesOf(ns) == {i \in 1..Len(ns) : ns[i].class = "VariableSwitch"}

\* C9 as stated: create_variable_switch, when the host lets it create the
\* switch, creates one VariableSwitch on __default__.<variant>, and for EVERY option index i input i is a Dot
\* labelled o_i and pattern i is o_i, also when a Dot could not be created;
\* with a blank name or no options no node is created
C9_EveryInputHasItsDot ==
    lastCall.op = "switch" =>
        LET variant == VariantName(lastCall.sec)
            options == CollectOptions(lastCall.sec)
        IN IF variant = <<>> \/ options = <<>>
           THEN nodes = lastCall.pre
           ELSE lastCall.switch > 0 =>
                /\ Cardinality(SwitchesOf(nodes)) = Cardinality(SwitchesOf(lastCall.pre)) + 1
                /\ lastCall.switch \in SwitchesOf(nodes)
                /\ nodes[lastCall.switch].variable = <<DefaultSet, variant>>
                /\ \A idx \in 0..(Len(options) - 1) :
                      /\ InputIsDot(nodes, lastCall.switch, idx, options[idx + 1])
                      /\ PatternIs(nodes, lastCall.switch, idx, options[idx + 1])

\* C9 amended: when create_variable_switch creates its switch there is one
\* more VariableSwitch, on __default__.<variant>; pattern i is o_i for every
\* option index i; input i is a Dot labelled o_i for every index whose Dot
\* was created and is left unconnected for every index whose Dot failed; with
\* a blank name or no options, or when the switch cannot be created, the
\* graph is unchanged
C9_CreatedDotsAligned ==
    lastCall.op = "switch" =>
        LET variant == VariantName(lastCall.sec)
            options == CollectOptions(lastCall.sec)
        IN IF variant = <<>> \/ options = <<>> \/ lastCall.switch = 0
           THEN nodes = lastCall.pre
           ELSE /\ Cardinality(SwitchesOf(nodes)) = Cardinality(SwitchesOf(lastCall.pre)) + 1
                /\ lastCall.switch \in SwitchesOf(nodes)
                /\ nodes[lastCall.switch].variable = <<DefaultSet, variant>>
                /\ \A idx \in 0..(Len(options) - 1) :
                      /\ PatternIs(nodes, lastCall.switch, idx, options[idx + 1])
                      /\ IF idx \in lastCall.failing
                         THEN idx \notin DOMAIN nodes[lastCall.switch].inputs
                         ELSE InputIsDot(nodes, lastCall.switch, idx, options[idx + 1])

\* a switch whose first Dot failed and whose second Dot was created
C9_Witness ==
    /\ SwitchCreated
    /\ 0 \in lastCall.failing
    /\ 1 \notin lastCall.failing
    /\ Len(CollectOptions(lastCall.sec)) >= 2
    /\ InputIsDot(nodes, lastCall.switch, 1, CollectOptions(lastCall.sec)[2])

----------------------------------------------------------------------------
\* Properties of encapsulate_write_with_variable_group (specification SpecWrap)

\* the last call was encapsulate_write_with_variable_group on something
\* that is neither a Write nor a Group with a publish_instance knob
WrapRefused ==
    /\ lastCall.op = "wrap"
    /\ \/ lastCall.target = 0
       \/ /\ lastCall.pre[lastCall.target].class # "Write"
          /\ ~(/\ lastCall.pre[lastCall.target].class = "Group"
               /\ lastCall.pre[lastCall.target].publish)

\* C10: for a target that is neither a Write nor a Group with a
\* publish_instance knob, or with nothing selected, the function shows one
\* message, returns None, opens no undo block and leaves the graph and the
\* selection as they were
C10_OnlyWritesAndPublishableGroups ==
    WrapRefused =>
        /\ messages = lastCall.preMessages + 1
        /\ lastCall.result = 0
        /\ undoCount = lastCall.preUndo
        /\ nodes = lastCall.pre
        /\ selected = lastCall.preSelected

\* the function was called on a selected Group without publish_instance
C10_Witness ==
    /\ WrapRefused
    /\ lastCall.arg = 0
    /\ lastCall.target # 0
    /\ lastCall.pre[lastCall.target].class = "Group"
    /\ Cardinality(lastCall.preSelected) > 1

----------------------------------------------------------------------------
\* Properties of the wrapper built by encapsulate_write_with_variable_group
\* (specification SpecWrap)

\* the last call was an encapsulate_write_with_variable_group that returned
\* the wrapper
WrapSucceeded == lastCall.op = "wrap" /\ lastCall.result # 0

Wrapper == nodes[lastCall.result]
Wrapped == lastCall.pre[lastCall.target]

\* the checkboxes of the wrapper g that stand for the knob k
TogglesFor(g, k) ==
    {i \in 1..Len(g.toggles) : OriginalNameFromToggle(g.toggles[i]) = k}

----------------------------------------------------------------------------
\* Properties of refresh_variable_group_links (specification SpecLinks)

\* the last call was refresh_variable_group_links on a VariableGroup
JustRefreshed ==
    /\ lastCall.op = "refresh"
    /\ nodes[lastCall.target].class = "VariableGroup"

Refreshed == nodes[lastCall.target]

\* the knobs whose whitelist checkbox is enabled on the wrapper g
EnabledKnobs(g) ==
    {OriginalNameFromToggle(g.toggles[i]) : i \in {j \in 1..Len(g.toggles) : g.toggles[j].value}}

\* the knobs of the node inside the wrapper g
InnerKnobs(g) == UNION {g.inner[i].knobs : i \in 1..Len(g.inner)}

\* C12: after refresh_variable_group_links on a VariableGroup the knobs of
\* the wrapped node that the wrapper exposes as links are exactly those whose
\* whitelist checkbox is enabled
C12_LinksAreEnabledCheckboxes ==
    JustRefreshed =>
        Range(Refreshed.links) = EnabledKnobs(Refreshed) \cap InnerKnobs(Refreshed)

----------------------------------------------------------------------------
\* Properties of the Screen pulldown of a wrapper (specification SpecSelector)

\* the last call was _on_screen_selector_changed
SelectorCalled == lastCall.op = "selector"

\* C13: _on_screen_selector_changed writes nothing but the group-local
\* __default__.screens of the group it is called for: the root GSV, every
\* other node with its local GSV, and everything else of the group itself
\* are as they were before the call
C13_SelectorIsLocal ==
    SelectorCalled =>
        /\ gsv = lastCall.preGsv
        /\ Len(nodes) = Len(lastCall.pre)
        /\ \A i \in 1..Len(nodes) : i # lastCall.target => nodes[i] = lastCall.pre[i]
        /\ nodes[lastCall.target]
               = [lastCall.pre[lastCall.target] EXCEPT !.local = nodes[lastCall.target].local]
        /\ DOMAIN nodes[lastCall.target].local
               \subseteq DOMAIN lastCall.pre[lastCall.target].local \cup {ScreensPath}
        /\ \A q \in DOMAIN lastCall.pre[lastCall.target].local \ {ScreensPath} :
               /\ q \in DOMAIN nodes[lastCall.target].local
               /\ nodes[lastCall.target].local[q] = lastCall.pre[lastCall.target].local[q]

\* the pulldown of one of two wrappers was switched to a screen that is
\* neither the root's current screen nor the other wrapper's
C13_Witness ==
    /\ SelectorCalled
    /\ ScreensPath \in DOMAIN nodes[lastCall.target].local
    /\ nodes[lastCall.target].local # lastCall.pre[lastCall.target].local
    /\ nodes[lastCall.target].local[ScreensPath] # HostGetGsvValue(gsv, ScreensPath)
    /\ \E i \in 1..Len(nodes) :
           /\ i # lastCall.target
           /\ nodes[i].class = "VariableGroup"
           /\ ScreensPath \in DOMAIN nodes[i].local
           /\ nodes[i].local[ScreensPath] # nodes[lastCall.target].local[ScreensPath]

----------------------------------------------------------------------------
\* Properties of the locking of the Switch Manager (specification Spec)

\* the last handler ran _load_from_gsv: a change of the root GSV made by
\* another tool, or a sync that wrote or removed something
JustLoaded ==
    \/ lastSync.op = "load"
    \/ /\ lastSync.op = "sync"
       /\ \/ SyncedVariants(lastSync.pre) # {}
          \/ RemovedVariants(lastSync.before, SyncedVariants(lastSync.pre)) # {}

\* the last handler was _on_edit
JustEdited == lastSync.op = "edit"

AllSectionsLocked(flag) == \A i \in 1..Len(sections) : sections[i].locked = flag

\* C14: the Edit GSV button is enabled exactly when the sections are locked
\* and the Add Variant button exactly when they are not; a load that finds
\* list variants locks every section, a load that finds none unlocks them,
\* and _on_edit unlocks every section
C14_LockingFollowsLoads ==
    /\ editEnabled = sectionsLocked
    /\ addEnabled = ~sectionsLocked
    /\ JustLoaded =>
           LET found == DOMAIN discover_list_variants(gsv, hostMode) # {}
           IN sectionsLocked = found /\ AllSectionsLocked(found)
    /\ JustEdited => ~sectionsLocked /\ AllSectionsLocked(FALSE)

\* _on_edit has unlocked the sections that a load of two variants had locked
C14_Witness ==
    /\ JustEdited
    /\ Cardinality(DOMAIN discover_list_variants(gsv, hostMode)) = 2
    /\ Len(sections) = 2
    /\ addEnabled /\ ~editEnabled

----------------------------------------------------------------------------
\* Properties of Sync Screens to GSV (specification SpecScreens)

\* the last handler was _on_apply
JustApplied == lastCall.op = "apply"

\* C15: _on_apply with at least one screen in the rows leaves
\* __default__.screens with the collected screens as its list options, with
\* the Current Selection text as its value when that is one of the screens
\* and the first screen otherwise, and with a GSV set for every screen;
\* with no screen in the rows the GSV and the node graph stay as they were
C15_ApplyWritesScreens ==
    JustApplied =>
        IF lastCall.screens # <<>>
        THEN /\ HostGetListOptions(gsv, ScreensPath) = lastCall.screens
             /\ HostGetGsvValue(gsv, ScreensPath)
                    = IF lastCall.text \in Range(lastCall.screens)
                      THEN lastCall.text ELSE lastCall.screens[1]
             /\ \A i \in 1..Len(lastCall.screens) : lastCall.screens[i] \in DOMAIN gsv.value
        ELSE gsv = lastCall.preGsv /\ nodes = lastCall.pre

\* two screens were applied with the second one as the Current Selection,
\* to a root GSV that had other screens
C15_Witness ==
    /\ JustApplied
    /\ Len(lastCall.screens) = 2
    /\ lastCall.text = lastCall.screens[2]
    /\ HostGetListOptions(lastCall.preGsv, ScreensPath) # lastCall.screens
    /\ HostGetGsvValue(gsv, ScreensPath) = lastCall.screens[2]

----------------------------------------------------------------------------
\* Properties of collect_options and _collect_screens_from_rows
\* (specification SpecCollect)

\* the last call collected names from the rows
JustCollected == lastCall.op \in {"collect_options", "collect_screens"}

\* a letter, a digit, the underscore or the hyphen
NameChar(ch) == ch \in {"a", "b", "A", "1", "_", "-"}

\* row i of the last call without the characters that are not allowed
CleanedRow(i) == SelectSeq(lastCall.rows[i], NameChar)

\* the rows whose cleaned text is not empty and not that of an earlier row
KeptRows ==
    {i \in 1..Len(lastCall.rows) :
        /\ CleanedRow(i) # <<>>
        /\ \A j \in 1..(i - 1) : CleanedRow(j) # CleanedRow(i)}

\* C16: collect_options and _collect_screens_from_rows return the cleaned
\* texts of the kept rows in row order, that is every row text without its
\* disallowed characters, empty results and later repeats left out; the
\* result has no empty name, no repeated name and no disallowed character
C16_CollectedNames ==
    JustCollected =>
        /\ Len(lastCall.result) = Cardinality(KeptRows)
        /\ \A i \in KeptRows :
               lastCall.result[Cardinality({j \in KeptRows : j <= i})] = CleanedRow(i)
        /\ \A n \in 1..Len(lastCall.result) :
               /\ lastCall.result[n] # <<>>
               /\ \A k \in 1..Len(lastCall.result[n]) : NameChar(lastCall.result[n][k])
               /\ \A m \in 1..Len(lastCall.result) :
                      lastCall.result[m] = lastCall.result[n] => m = n

\* three different row texts of which the second repeats the first once
\* cleaned and the third loses a character
C16_Witness ==
    /\ JustCollected
    /\ Len(lastCall.rows) = 3
    /\ lastCall.rows[1] # lastCall.rows[2]
    /\ CleanedRow(1) = CleanedRow(2)
    /\ CleanedRow(3) # lastCall.rows[3]
    /\ Len(lastCall.result) = 2
    /\ lastCall.result[2] = CleanedRow(3)

====
